---- MODULE Spec2Model ----
(***************************************************************************)
(* Model of the DEX limit order book and matching engine                   *)
(* (Order.hpp, OrderBook.hpp/.cpp, MatchingEngine.hpp/.cpp) and of the     *)
(* settlement contract DEXContract (Solidity).                             *)
(*                                                                         *)
(* Prices and quantities are doubles in the C++ source; here they are exact *)
(* multiples of one tick / one lot (naturals), so that +, -, min, <= and   *)
(* >= are the exact real operations the code performs on such values.      *)
(* Timestamps are opaque and omitted.                                      *)
(*                                                                         *)
(* Spec drives one engine from a single caller: every public call runs to  *)
(* completion before the next one starts.  SpecEngine does the same with   *)
(* two pairs, two users and rejected arguments.  SpecThreads runs          *)
(* submitOrder from two threads, one step per access to shared state.      *)
(* SpecLocks runs every public call of the engine from two threads, one    *)
(* step per lock acquisition and per critical section; SpecFair is the     *)
(* same for one trading pair with weak fairness of every thread.  SpecBook *)
(* adds a client that calls OrderBook::addOrder on a book it got from      *)
(* getOrderBook.  SpecContract sends transactions to the DEXContract.      *)
(*                                                                         *)
(* C3 .. C10 were also run with MaxOrders = 4, MaxPrice = 3, MaxQty = 3,   *)
(* MaxCancels = 2 (17,924,706 distinct states, about 20 minutes): no       *)
(* violation.                                                              *)
(***************************************************************************)
EXTENDS Integers, Sequences, FiniteSets, TLC

\* ---- bounds of the model ----
MaxOrders == 3      \* number of accepted submissions (ids handed out)
MaxPrice  == 2      \* LIMIT prices offered to submitOrder are 1..MaxPrice
MaxQty    == 2      \* quantities offered to submitOrder are 1..MaxQty
MaxCancels == 1     \* cancelOrder is no longer called once this many orders are CANCELLED
EngineMaxOrders == 2   \* accepted submissions under SpecEngine and SpecThreads
LockMaxOrders == 1     \* accepted submissions under SpecLocks
FairMaxOrders == 3     \* accepted submissions under SpecFair
UintMax == 3           \* model value of type(uint256).max: arithmetic beyond it reverts
WAD == 2               \* model value of the fixed-point unit 1e18
MaxAmount == 2         \* deposit and withdraw amounts are 0..MaxAmount
DexMaxPrice == 2       \* placeOrder / executeTrade prices are 1..DexMaxPrice
DexMaxQty == 2         \* placeOrder / executeTrade quantities are 1..DexMaxQty
DexMaxOrderId == 2     \* placeOrder ids are 0..DexMaxOrderId
DexMaxOrders == 2      \* placeOrder is no longer called once this many ids hold an order

\* ---- input domains ----
Pairs  == {"ETH/USDT"}
Users  == {"user1"}
Threads == {"t1", "t2"}
Sides  == {"BUY", "SELL"}
Types  == {"MARKET", "LIMIT"}
Prices == 1..MaxPrice
Quantities == 1..MaxQty
OrderIds == 1..(MaxOrders + 1)

VARIABLES
    orderBooks_,      \* MatchingEngine::orderBooks_ : pair -> OrderBook
    orderIdCounter_,  \* MatchingEngine::orderIdCounter_
    orderPtr,         \* the Order objects behind every OrderPtr, by id
    tradeLog,         \* every Trade returned so far, with the taker's id
    lastResult,       \* outcome of the last public call
    threads,          \* per calling thread: where it is inside a public call
    mutex_,           \* MatchingEngine::mutex_ : the thread holding it, or "none"
    dex,              \* the deployed DEXContract: its storage (orders, balances)
    tx                \* outcome of the last transaction sent to the contract

vars == <<orderBooks_, orderIdCounter_, orderPtr, tradeLog, lastResult, threads, mutex_,
          dex, tx>>

\* what the calls into the C++ engine leave alone
contractVars == <<dex, tx>>

\* what the transactions of the contract leave alone
engineVars == <<orderBooks_, orderIdCounter_, orderPtr, tradeLog, lastResult, threads, mutex_>>

\* what the calls of a single caller leave alone
lockVars == <<threads, mutex_>>

\* ---- Order.hpp ----
Order(id, userId, pair, side, type, price, quantity) ==
    [id |-> id, userId |-> userId, tradingPair |-> pair, side |-> side,
     type |-> type, status |-> "PENDING", price |-> price,
     quantity |-> quantity, filledQuantity |-> 0]

getRemainingQuantity(o) == o.quantity - o.filledQuantity

isFilled(o) == o.filledQuantity >= o.quantity

\* ---- helpers over std::map / std::vector ----
Min(a, b) == IF a <= b THEN a ELSE b

MaxOf(S) == CHOOSE x \in S : \A y \in S : y <= x
MinOf(S) == CHOOSE x \in S : \A y \in S : x <= y

\* faulty variant of asksBegin: asks_ ordered by std::greater as well
asksBegin_greater(m) == MaxOf(DOMAIN m)

\* bids_ is ordered by std::greater: begin() is the highest key
bidsBegin(m) == MaxOf(DOMAIN m)
\* asks_ is ordered by std::less: begin() is the lowest key
asksBegin(m) == MinOf(DOMAIN m)

EmptyMap == [p \in {} |-> <<>>]

mapErase(m, k) == [p \in (DOMAIN m) \ {k} |-> m[p]]

\* faulty variant of mapPushBack: the order is put in front of the level
mapPushBack_front(m, k, v) ==
    [p \in (DOMAIN m) \cup {k} |->
        IF p = k THEN (IF k \in DOMAIN m THEN <<v>> \o m[k] ELSE <<v>>)
        ELSE m[p]]

\* m[k].push_back(v), creating the level when absent
mapPushBack(m, k, v) ==
    [p \in (DOMAIN m) \cup {k} |->
        IF p = k THEN (IF k \in DOMAIN m THEN Append(m[k], v) ELSE <<v>>)
        ELSE m[p]]

\* std::remove + erase: drop every occurrence of v
RECURSIVE vectorRemove(_, _)
vectorRemove(s, v) ==
    IF s = <<>> THEN <<>>
    ELSE IF Head(s) = v THEN vectorRemove(Tail(s), v)
         ELSE <<Head(s)>> \o vectorRemove(Tail(s), v)

\* ---- OrderBook.cpp ----
\* mutex_ is OrderBook::mutex_ : the thread holding it, or "none"
OrderBook(pair) == [tradingPair_ |-> pair, bids_ |-> EmptyMap,
                    asks_ |-> EmptyMap, orders_ |-> {}, mutex_ |-> "none"]

\* faulty variant of updateStatus: a filled order is marked PARTIAL
updateStatus_partial(o) ==
    IF o.filledQuantity > 0 THEN [o EXCEPT !.status = "PARTIAL"] ELSE o

updateStatus(o) ==
    IF isFilled(o) THEN [o EXCEPT !.status = "FILLED"]
    ELSE IF o.filledQuantity > 0 THEN [o EXCEPT !.status = "PARTIAL"]
    ELSE o

\* filledQuantity += quantity on one order
addFilled(h, id, quantity) == [h EXCEPT ![id].filledQuantity = @ + quantity]

\* the status update of one order
setStatus(h, id) == [h EXCEPT ![id] = updateStatus(@)]

\* the Trade built from the two (updated) orders
Trade(h, buyOrder, sellOrder, price, quantity) ==
    [h |-> h,
     trade |-> [buyOrderId |-> h[buyOrder].id, sellOrderId |-> h[sellOrder].id,
                price |-> price, quantity |-> quantity]]

\* faulty variant of executeTrade: only the buy order is filled
executeTrade_buyOnly(h, buyOrder, sellOrder, price, quantity) ==
    Trade(setStatus(setStatus(addFilled(h, buyOrder, quantity), buyOrder), sellOrder),
          buyOrder, sellOrder, price, quantity)

\* returns the updated Order objects and the Trade
executeTrade(h, buyOrder, sellOrder, price, quantity) ==
    Trade(setStatus(setStatus(addFilled(addFilled(h, buyOrder, quantity),
                                        sellOrder, quantity),
                              buyOrder),
                    sellOrder),
          buyOrder, sellOrder, price, quantity)

\* faulty variant of tradeBuyer: the incoming order is always passed as the buyer
tradeBuyer_alwaysNew(h, newOrder, oppositeOrder) == newOrder

\* the buy and the sell argument handed to executeTrade
tradeBuyer(h, newOrder, oppositeOrder) ==
    IF h[newOrder].side = "BUY" THEN newOrder ELSE oppositeOrder
tradeSeller(h, newOrder, oppositeOrder) ==
    IF h[newOrder].side = "SELL" THEN newOrder ELSE oppositeOrder

\* faulty variant of front: orders.back()
front_back(orders) == orders[Len(orders)]

\* orders.front()
front(orders) == Head(orders)

\* faulty variant of matchPriceOf: the taker's price is used
matchPriceOf_taker(h, newOrder, oppositeOrder) == h[newOrder].price

matchPriceOf(h, newOrder, oppositeOrder) == h[oppositeOrder].price

\* faulty variant of matchQuantityOf: the taker's remaining quantity, no min
matchQuantityOf_taker(h, newOrder, oppositeOrder) == getRemainingQuantity(h[newOrder])

matchQuantityOf(h, newOrder, oppositeOrder) ==
    Min(getRemainingQuantity(h[newOrder]), getRemainingQuantity(h[oppositeOrder]))

\* one trade of newOrder against oppositeOrder
matchOne(h, newOrder, oppositeOrder) ==
    executeTrade(h,
        tradeBuyer(h, newOrder, oppositeOrder),
        tradeSeller(h, newOrder, oppositeOrder),
        matchPriceOf(h, newOrder, oppositeOrder),
        matchQuantityOf(h, newOrder, oppositeOrder))

\* faulty variant of eraseFilled: the maker leaves the level after every trade
eraseFilled_always(h, orders, oppositeOrder) == Tail(orders)

\* "remove filled order": orders.erase(orders.begin()) when the maker is filled
eraseFilled(h, orders, oppositeOrder) ==
    IF isFilled(h[oppositeOrder]) THEN Tail(orders) ELSE orders

\* inner while loop of matchOrder, over one price level;
\* matchLevelNext is the rest of one iteration after executeTrade returned r
RECURSIVE matchLevel(_, _, _, _)
RECURSIVE matchLevelNext(_, _, _, _)
matchLevel(h, orders, newOrder, trades) ==
    IF ~isFilled(h[newOrder]) /\ orders # <<>>
    THEN matchLevelNext(matchOne(h, newOrder, front(orders)), orders, newOrder, trades)
    ELSE [h |-> h, orders |-> orders, trades |-> trades]

\* faulty variant of matchLevelNext: the trade is put in front of the list
matchLevelNext_prepend(r, orders, newOrder, trades) ==
    matchLevel(r.h, eraseFilled(r.h, orders, front(orders)), newOrder,
               <<r.trade>> \o trades)

matchLevelNext(r, orders, newOrder, trades) ==
    matchLevel(r.h, eraseFilled(r.h, orders, front(orders)), newOrder,
               Append(trades, r.trade))

\* oppositeBook.begin() for the taker's side
oppositeBegin(side, oppositeBook) ==
    IF side = "BUY" THEN asksBegin(oppositeBook) ELSE bidsBegin(oppositeBook)

\* faulty variant of priceAcceptable: strict comparisons
priceAcceptable_strict(o, price) ==
    IF o.side = "BUY" THEN price < o.price ELSE price > o.price

\* faulty variant of priceAcceptable: no price check
priceAcceptable_always(o, price) == TRUE

priceAcceptable(o, price) ==
    IF o.side = "BUY" THEN price <= o.price ELSE price >= o.price

\* "remove empty price level"
eraseEmpty(oppositeBook, price, orders) ==
    IF orders = <<>> THEN mapErase(oppositeBook, price)
    ELSE [oppositeBook EXCEPT ![price] = orders]

\* outer while loop of matchOrder (the MARKET and the LIMIT branch differ only
\* in the priceAcceptable test); matchBookNext is the rest of one iteration
\* after the inner loop returned r
RECURSIVE matchBook(_, _, _, _)
RECURSIVE matchBookNext(_, _, _, _)
matchBook(h, oppositeBook, newOrder, trades) ==
    IF ~isFilled(h[newOrder]) /\ DOMAIN oppositeBook # {}
    THEN IF /\ h[newOrder].type = "LIMIT"
            /\ ~priceAcceptable(h[newOrder], oppositeBegin(h[newOrder].side, oppositeBook))
         THEN [h |-> h, book |-> oppositeBook, trades |-> trades]
         ELSE matchBookNext(
                  matchLevel(h, oppositeBook[oppositeBegin(h[newOrder].side, oppositeBook)],
                             newOrder, trades),
                  oppositeBook, oppositeBegin(h[newOrder].side, oppositeBook), newOrder)
    ELSE [h |-> h, book |-> oppositeBook, trades |-> trades]

\* faulty variant of matchBookNext: matching stops after the first price level
matchBookNext_oneLevel(r, oppositeBook, price, newOrder) ==
    [h |-> r.h, book |-> eraseEmpty(oppositeBook, price, r.orders), trades |-> r.trades]

matchBookNext(r, oppositeBook, price, newOrder) ==
    matchBook(r.h, eraseEmpty(oppositeBook, price, r.orders), newOrder, r.trades)

\* auto& oppositeBook = (newOrder->side == BUY) ? asks_ : bids_
oppositeBookOf(book, o) == IF o.side = "BUY" THEN book.asks_ ELSE book.bids_

\* the book with its opposite side replaced by the matched one
withOpposite(r, book, o) ==
    [h |-> r.h,
     book |-> IF o.side = "BUY" THEN [book EXCEPT !.asks_ = r.book]
              ELSE [book EXCEPT !.bids_ = r.book],
     trades |-> r.trades]

\* matchOrder: returns the Order objects, the book and the trades
matchOrder(h, book, newOrder) ==
    withOpposite(matchBook(h, oppositeBookOf(book, h[newOrder]), newOrder, <<>>),
                 book, h[newOrder])

\* the "add to the book" test at the end of addOrder
restsAfterMatch(o) == ~isFilled(o)

\* faulty variant of pushOrder: the side of the order is not looked at
pushOrder_bids(book, o) == [book EXCEPT !.bids_ = mapPushBack(@, o.price, o.id)]

\* bids_[order->price].push_back(order) / asks_[order->price].push_back(order)
pushOrder(book, o) ==
    IF o.side = "BUY" THEN [book EXCEPT !.bids_ = mapPushBack(@, o.price, o.id)]
    ELSE [book EXCEPT !.asks_ = mapPushBack(@, o.price, o.id)]

\* the part of addOrder after matchOrder returned r
addRemainder(r, newOrder) ==
    [h |-> r.h,
     book |-> IF restsAfterMatch(r.h[newOrder]) THEN pushOrder(r.book, r.h[newOrder])
              ELSE r.book,
     trades |-> r.trades,
     ret |-> "ok"]

\* faulty variant of addOrder: the order enters the directory before its pair
\* is compared with the book's
addOrder_late(h, book, newOrder) ==
    IF h[newOrder].tradingPair # book.tradingPair_
    THEN [h |-> h, book |-> [book EXCEPT !.orders_ = @ \cup {newOrder}],
          trades |-> <<>>, ret |-> "WrongPair"]
    ELSE addRemainder(matchOrder(h, [book EXCEPT !.orders_ = @ \cup {newOrder}], newOrder),
                      newOrder)

\* addOrder: h already holds the new Order object under id newOrder
addOrder(h, book, newOrder) ==
    IF h[newOrder].tradingPair # book.tradingPair_
    THEN [h |-> h, book |-> book, trades |-> <<>>, ret |-> "WrongPair"]
    ELSE addRemainder(matchOrder(h, [book EXCEPT !.orders_ = @ \cup {newOrder}], newOrder),
                      newOrder)

\* faulty variant of removeFromLevel: the order is left in its price level
removeFromLevel_keeps(side, price, orderId) == side

\* faulty variant of removeFromLevel: the whole price level is erased
removeFromLevel_level(side, price, orderId) ==
    IF price \in DOMAIN side THEN mapErase(side, price) ELSE side

\* the price level after std::remove / erase, dropped when it became empty
removeFromLevel(side, price, orderId) ==
    IF price \in DOMAIN side
    THEN eraseEmpty(side, price, vectorRemove(side[price], orderId))
    ELSE side

\* faulty variant of bookCancelOrder: the id is looked up among all orders of
\* the engine, not in the directory of this book
bookCancelOrder_global(h, book, orderId) ==
    IF orderId \notin DOMAIN h
    THEN [h |-> h, book |-> book, ret |-> FALSE]
    ELSE [h |-> [h EXCEPT ![orderId].status = "CANCELLED"],
          book |-> IF h[orderId].side = "BUY"
                   THEN [book EXCEPT
                           !.bids_ = removeFromLevel(@, h[orderId].price, orderId),
                           !.orders_ = @ \ {orderId}]
                   ELSE [book EXCEPT
                           !.asks_ = removeFromLevel(@, h[orderId].price, orderId),
                           !.orders_ = @ \ {orderId}],
          ret |-> TRUE]

\* OrderBook::cancelOrder
bookCancelOrder(h, book, orderId) ==
    IF orderId \notin book.orders_
    THEN [h |-> h, book |-> book, ret |-> FALSE]
    ELSE [h |-> [h EXCEPT ![orderId].status = "CANCELLED"],
          book |-> IF h[orderId].side = "BUY"
                   THEN [book EXCEPT
                           !.bids_ = removeFromLevel(@, h[orderId].price, orderId),
                           !.orders_ = @ \ {orderId}]
                   ELSE [book EXCEPT
                           !.asks_ = removeFromLevel(@, h[orderId].price, orderId),
                           !.orders_ = @ \ {orderId}],
          ret |-> TRUE]

\* OrderBook::getBestBid, OrderBook::getBestAsk
getBestBid(book) == IF DOMAIN book.bids_ = {} THEN 0 ELSE bidsBegin(book.bids_)
getBestAsk(book) == IF DOMAIN book.asks_ = {} THEN 0 ELSE asksBegin(book.asks_)

\* the keys of a std::map in iteration order, under std::greater and std::less
RECURSIVE iterateGreater(_)
iterateGreater(keys) ==
    IF keys = {} THEN <<>>
    ELSE <<MaxOf(keys)>> \o iterateGreater(keys \ {MaxOf(keys)})

RECURSIVE iterateLess(_)
iterateLess(keys) ==
    IF keys = {} THEN <<>>
    ELSE <<MinOf(keys)>> \o iterateLess(keys \ {MinOf(keys)})

\* the keys the depth loop visits before "if (count++ >= levels) break"
visited(keys, levels) == {keys[k] : k \in 1..Min(Len(keys), levels)}

\* totalQuantity += order->getRemainingQuantity() over one level
RECURSIVE totalQuantity(_, _)
totalQuantity(h, orders) ==
    IF orders = <<>> THEN 0
    ELSE getRemainingQuantity(h[Head(orders)]) + totalQuantity(h, Tail(orders))

\* OrderBook::getBidDepth, getAskDepth: the std::map<double, double> returned
getBidDepth(h, book, levels) ==
    [price \in visited(iterateGreater(DOMAIN book.bids_), levels) |->
        totalQuantity(h, book.bids_[price])]

getAskDepth(h, book, levels) ==
    [price \in visited(iterateLess(DOMAIN book.asks_), levels) |->
        totalQuantity(h, book.asks_[price])]

\* what a caller reads from a returned std::map<double, double>: its
\* (price, quantity) entries in the order of its keys, which is std::less
entriesAt(depth, keys) == [k \in 1..Len(keys) |-> <<keys[k], depth[keys[k]]>>]
entries(depth) == entriesAt(depth, iterateLess(DOMAIN depth))

\* OrderBook::getUserOrders: the ids of the orders returned
bookGetUserOrders(h, book, userId) == {id \in book.orders_ : h[id].userId = userId}

\* ---- MatchingEngine.cpp ----
\* what a public call hands back: the call, the id it concerned (0: none),
\* the trades, and the return value or exception
Result(op, orderId, trades, ret) ==
    [op |-> op, orderId |-> orderId, trades |-> trades, ret |-> ret]

\* the MarketData a thread inside getMarketData has filled in so far
NoData == [bestBid |-> 0, bestAsk |-> 0, spread |-> 0,
           bidDepth |-> <<>>, askDepth |-> <<>>]

\* a thread that is not inside a public call
Idle == [pc |-> "idle", userId |-> "", tradingPair |-> "", side |-> "BUY",
         type |-> "LIMIT", price |-> 0, quantity |-> 0, orderId |-> 0,
         data |-> NoData]

\* what a query hands back: the call and the value returned
Value(op, value) ==
    [op |-> op, orderId |-> 0, trades |-> <<>>, ret |-> "ok", value |-> value]

\* ---- DEXContract (Solidity) ----
\* The contract's storage is the record dex with the fields orders and
\* balances.  block.timestamp and the events are left out.  uint256 arithmetic
\* is checked (pragma ^0.8.0): a result outside 0..UintMax reverts with a
\* panic.  The tokens are plain ERC20 tokens without callbacks; whether a
\* transfer succeeds depends on the caller's wallet and allowance, which are
\* not modelled: the outcome is an input of the transaction.
Owner == "owner"
Accounts == {"owner", "user1", "user2"}
Traders == {"user1"}
Tokens == {"tokenA", "tokenB"}
DexOrderIds == 0..DexMaxOrderId

\* the value of orders[id] for an id never written
NoOrder ==
    [id |-> 0, user |-> "0x0", baseToken |-> "0x0", quoteToken |-> "0x0",
     side |-> "BUY", orderType |-> "MARKET", status |-> "PENDING",
     price |-> 0, quantity |-> 0, filledQuantity |-> 0]

DEXContract ==
    [orders |-> [id \in DexOrderIds |-> NoOrder],
     balances |-> [user \in Accounts |-> [token \in Tokens |-> 0]]]

Tx(fn, status) == [fn |-> fn, status |-> status]

\* the outcome of deposit: the reason of the revert, or "ok"
depositReverts(sender, token, amount, transferred) ==
    IF ~(amount > 0) THEN "Amount must be greater than 0"
    ELSE IF ~transferred THEN "Transfer failed"
    ELSE IF dex.balances[sender][token] + amount > UintMax THEN "Panic"
    ELSE "ok"

\* faulty variant of deposit: the balance is set to the amount
deposit_sets(sender, token, amount, transferred) ==
    /\ tx' = Tx("deposit", depositReverts(sender, token, amount, transferred))
    /\ IF depositReverts(sender, token, amount, transferred) # "ok"
       THEN UNCHANGED dex
       ELSE dex' = [dex EXCEPT !.balances[sender][token] = amount]

deposit(sender, token, amount, transferred) ==
    /\ tx' = Tx("deposit", depositReverts(sender, token, amount, transferred))
    /\ IF depositReverts(sender, token, amount, transferred) # "ok"
       THEN UNCHANGED dex
       ELSE dex' = [dex EXCEPT !.balances[sender][token] = @ + amount]

withdrawReverts(sender, token, amount, transferred) ==
    IF ~(amount > 0) THEN "Amount must be greater than 0"
    ELSE IF ~(dex.balances[sender][token] >= amount) THEN "Insufficient balance"
    ELSE IF ~transferred THEN "Transfer failed"
    ELSE "ok"

withdraw(sender, token, amount, transferred) ==
    /\ tx' = Tx("withdraw", withdrawReverts(sender, token, amount, transferred))
    /\ IF withdrawReverts(sender, token, amount, transferred) # "ok"
       THEN UNCHANGED dex
       ELSE dex' = [dex EXCEPT !.balances[sender][token] = @ - amount]

\* (price * quantity) / 1e18
quoteOf(price, quantity) == (price * quantity) \div WAD

\* what placeOrder takes from the user's balance, and of which token
lockedToken(baseToken, quoteToken, side) == IF side = "BUY" THEN quoteToken ELSE baseToken
lockedAmount(side, price, quantity) ==
    IF side = "BUY" THEN quoteOf(price, quantity) ELSE quantity

placeOrderReverts(sender, orderId, user, baseToken, quoteToken, side, price, quantity) ==
    IF sender # Owner THEN "OwnableUnauthorizedAccount"
    ELSE IF ~(dex.orders[orderId].id = 0) THEN "Order ID already exists"
    ELSE IF side = "BUY" /\ price * quantity > UintMax THEN "Panic"
    ELSE IF side = "BUY" /\ ~(dex.balances[user][quoteToken] >= quoteOf(price, quantity))
         THEN "Insufficient quote token balance"
    ELSE IF side = "SELL" /\ ~(dex.balances[user][baseToken] >= quantity)
         THEN "Insufficient base token balance"
    ELSE "ok"

placeOrder(sender, orderId, user, baseToken, quoteToken, side, orderType, price, quantity) ==
    /\ tx' = Tx("placeOrder", placeOrderReverts(sender, orderId, user, baseToken,
                                                quoteToken, side, price, quantity))
    /\ IF placeOrderReverts(sender, orderId, user, baseToken, quoteToken, side,
                            price, quantity) # "ok"
       THEN UNCHANGED dex
       ELSE dex' = [dex EXCEPT
                !.balances[user][lockedToken(baseToken, quoteToken, side)] =
                    @ - lockedAmount(side, price, quantity),
                !.orders[orderId] =
                    [id |-> orderId, user |-> user, baseToken |-> baseToken,
                     quoteToken |-> quoteToken, side |-> side, orderType |-> orderType,
                     status |-> "PENDING", price |-> price, quantity |-> quantity,
                     filledQuantity |-> 0]]

\* the status an order gets in executeTrade once filledQuantity has grown
dexStatus(order) ==
    IF order.filledQuantity >= order.quantity THEN "FILLED" ELSE "PARTIAL"

dexFill(order, quantity) ==
    [[order EXCEPT !.filledQuantity = @ + quantity] EXCEPT
        !.status = dexStatus([order EXCEPT !.filledQuantity = @ + quantity])]

executeTradeReverts(sender, buyOrderId, sellOrderId, price, quantity) ==
    IF sender # Owner THEN "OwnableUnauthorizedAccount"
    ELSE IF ~(dex.orders[buyOrderId].id # 0) THEN "Buy order not found"
    ELSE IF ~(dex.orders[sellOrderId].id # 0) THEN "Sell order not found"
    ELSE IF ~(dex.orders[buyOrderId].side = "BUY") THEN "Invalid buy order"
    ELSE IF ~(dex.orders[sellOrderId].side = "SELL") THEN "Invalid sell order"
    ELSE IF \/ price * quantity > UintMax
            \/ dex.balances[dex.orders[buyOrderId].user][dex.orders[buyOrderId].baseToken]
                   + quantity > UintMax
            \/ dex.balances[dex.orders[sellOrderId].user][dex.orders[sellOrderId].quoteToken]
                   + quoteOf(price, quantity) > UintMax
            \/ dex.orders[buyOrderId].filledQuantity + quantity > UintMax
            \/ dex.orders[sellOrderId].filledQuantity + quantity > UintMax
         THEN "Panic"
    ELSE "ok"

\* the storage after the two balance updates of executeTrade, one after the other
creditTrade(buyOrder, sellOrder, price, quantity) ==
    [[dex EXCEPT !.balances[buyOrder.user][buyOrder.baseToken] = @ + quantity]
        EXCEPT !.balances[sellOrder.user][sellOrder.quoteToken] = @ + quoteOf(price, quantity)]

DEXContract_executeTrade(sender, buyOrderId, sellOrderId, price, quantity) ==
    /\ tx' = Tx("executeTrade",
                executeTradeReverts(sender, buyOrderId, sellOrderId, price, quantity))
    /\ IF executeTradeReverts(sender, buyOrderId, sellOrderId, price, quantity) # "ok"
       THEN UNCHANGED dex
       ELSE dex' = [creditTrade(dex.orders[buyOrderId], dex.orders[sellOrderId],
                                price, quantity) EXCEPT
                !.orders[buyOrderId] = dexFill(@, quantity),
                !.orders[sellOrderId] = dexFill(@, quantity)]

cancelOrderReverts(sender, orderId) ==
    IF ~(dex.orders[orderId].id # 0) THEN "Order not found"
    ELSE IF ~(dex.orders[orderId].user = sender \/ sender = Owner) THEN "Not authorized"
    ELSE IF ~(dex.orders[orderId].status \in {"PENDING", "PARTIAL"}) THEN "Cannot cancel"
    ELSE IF \/ (dex.orders[orderId].side = "BUY"
                /\ dex.orders[orderId].price
                     * (dex.orders[orderId].quantity - dex.orders[orderId].filledQuantity)
                     > UintMax)
            \/ dex.balances[dex.orders[orderId].user]
                           [lockedToken(dex.orders[orderId].baseToken,
                                        dex.orders[orderId].quoteToken,
                                        dex.orders[orderId].side)]
                 + lockedAmount(dex.orders[orderId].side, dex.orders[orderId].price,
                                dex.orders[orderId].quantity
                                  - dex.orders[orderId].filledQuantity) > UintMax
         THEN "Panic"
    ELSE "ok"

\* the storage after cancelOrder went through for this order
refund(order) ==
    [dex EXCEPT
        !.balances[order.user][lockedToken(order.baseToken, order.quoteToken, order.side)] =
            @ + lockedAmount(order.side, order.price, order.quantity - order.filledQuantity),
        !.orders[order.id].status = "CANCELLED"]

DEXContract_cancelOrder(sender, orderId) ==
    /\ tx' = Tx("cancelOrder", cancelOrderReverts(sender, orderId))
    /\ IF cancelOrderReverts(sender, orderId) # "ok"
       THEN UNCHANGED dex
       ELSE dex' = refund(dex.orders[orderId])

Init ==
    /\ orderBooks_ = [p \in {} |-> OrderBook("")]
    /\ orderIdCounter_ = 0
    /\ orderPtr = [i \in {} |-> Order(0, "", "", "BUY", "LIMIT", 0, 0)]
    /\ tradeLog = <<>>
    /\ lastResult = Result("init", 0, <<>>, "ok")
    /\ threads = [t \in Threads |-> Idle]
    /\ mutex_ = "none"
    /\ dex = DEXContract
    /\ tx = Tx("constructor", "ok")

\* faulty variant of addTradingPair: no lookup before the insertion
addTradingPair_overwrite(pair) ==
    /\ orderBooks_' = [p \in (DOMAIN orderBooks_) \cup {pair} |->
                          IF p = pair THEN OrderBook(pair) ELSE orderBooks_[p]]
    /\ lastResult' = Result("addTradingPair", 0, <<>>, "true")
    /\ UNCHANGED <<orderIdCounter_, orderPtr, tradeLog>>

addTradingPair(pair) ==
    /\ IF pair \in DOMAIN orderBooks_
       THEN /\ UNCHANGED orderBooks_
            /\ lastResult' = Result("addTradingPair", 0, <<>>, "false")
       ELSE /\ orderBooks_' = [p \in (DOMAIN orderBooks_) \cup {pair} |->
                                  IF p = pair THEN OrderBook(pair) ELSE orderBooks_[p]]
            /\ lastResult' = Result("addTradingPair", 0, <<>>, "true")
    /\ UNCHANGED <<orderIdCounter_, orderPtr, tradeLog>>

generateOrderId == orderIdCounter_ + 1

\* the Order objects with the one made by std::make_shared<Order> added
makeShared(order) ==
    [i \in (DOMAIN orderPtr) \cup {order.id} |->
        IF i = order.id THEN order ELSE orderPtr[i]]

\* the state after orderBook->addOrder(order) returned r
addOrderReturns(r, tradingPair, orderId) ==
    /\ orderPtr' = r.h
    /\ orderBooks_' = [orderBooks_ EXCEPT ![tradingPair] = r.book]
    /\ tradeLog' = tradeLog \o
           [k \in 1..Len(r.trades) |-> [trade |-> r.trades[k], taker |-> orderId]]
    /\ lastResult' = Result("submitOrder", orderId, r.trades, r.ret)

\* the exception submitOrder throws for these arguments, "ok" when it throws none
submitThrows(tradingPair, type, price, quantity) ==
    IF quantity <= 0 THEN "InvalidArgument"
    ELSE IF type = "LIMIT" /\ price <= 0 THEN "InvalidArgument"
    ELSE IF tradingPair \notin DOMAIN orderBooks_ THEN "UnknownPair"
    ELSE "ok"

\* faulty variant of submitOrder: the id is generated before the arguments are checked
submitOrder_idFirst(userId, tradingPair, side, type, price, quantity) ==
    IF submitThrows(tradingPair, type, price, quantity) # "ok"
    THEN /\ lastResult' = Result("submitOrder", 0, <<>>,
                                 submitThrows(tradingPair, type, price, quantity))
         /\ orderIdCounter_' = generateOrderId
         /\ UNCHANGED <<orderBooks_, orderPtr, tradeLog>>
    ELSE /\ orderIdCounter_ < MaxOrders
         /\ orderIdCounter_' = generateOrderId
         /\ addOrderReturns(
                addOrder(makeShared(Order(generateOrderId, userId, tradingPair,
                                          side, type, price, quantity)),
                         orderBooks_[tradingPair], generateOrderId),
                tradingPair, generateOrderId)

submitOrder(userId, tradingPair, side, type, price, quantity) ==
    IF submitThrows(tradingPair, type, price, quantity) # "ok"
    THEN /\ lastResult' = Result("submitOrder", 0, <<>>,
                                 submitThrows(tradingPair, type, price, quantity))
         /\ UNCHANGED <<orderBooks_, orderIdCounter_, orderPtr, tradeLog>>
    ELSE /\ orderIdCounter_ < MaxOrders
         /\ orderIdCounter_' = generateOrderId
         /\ addOrderReturns(
                addOrder(makeShared(Order(generateOrderId, userId, tradingPair,
                                          side, type, price, quantity)),
                         orderBooks_[tradingPair], generateOrderId),
                tradingPair, generateOrderId)

\* the state after orderBook->cancelOrder(orderId) returned r
cancelOrderReturns(r, tradingPair, orderId) ==
    /\ orderPtr' = r.h
    /\ orderBooks_' = [orderBooks_ EXCEPT ![tradingPair] = r.book]
    /\ lastResult' = IF r.ret THEN Result("cancelOrder", orderId, <<>>, "true")
                     ELSE Result("cancelOrder", 0, <<>>, "false")
    /\ UNCHANGED <<orderIdCounter_, tradeLog>>

cancelOrder(orderId, tradingPair) ==
    IF tradingPair \notin DOMAIN orderBooks_
    THEN /\ lastResult' = Result("cancelOrder", 0, <<>>, "false")
         /\ UNCHANGED <<orderBooks_, orderIdCounter_, orderPtr, tradeLog>>
    ELSE cancelOrderReturns(bookCancelOrder(orderPtr, orderBooks_[tradingPair], orderId),
                            tradingPair, orderId)

\* the number of levels getMarketData asks getBidDepth / getAskDepth for
DefaultDepth == 10

\* data.spread of getMarketData
spreadOf(bestBid, bestAsk) ==
    IF bestAsk > 0 /\ bestBid > 0 THEN bestAsk - bestBid ELSE 0

\* MatchingEngine::getMarketData: the MarketData returned, or the exception
getMarketData(tradingPair) ==
    IF tradingPair \notin DOMAIN orderBooks_
    THEN [ret |-> "UnknownPair"]
    ELSE [ret |-> "ok",
          bestBid |-> getBestBid(orderBooks_[tradingPair]),
          bestAsk |-> getBestAsk(orderBooks_[tradingPair]),
          spread |-> spreadOf(getBestBid(orderBooks_[tradingPair]),
                              getBestAsk(orderBooks_[tradingPair])),
          bidDepth |-> getBidDepth(orderPtr, orderBooks_[tradingPair], DefaultDepth),
          askDepth |-> getAskDepth(orderPtr, orderBooks_[tradingPair], DefaultDepth)]

\* MatchingEngine::getUserOrders: the ids of the orders returned
getUserOrders(userId, tradingPair) ==
    IF tradingPair \notin DOMAIN orderBooks_
    THEN {}
    ELSE bookGetUserOrders(orderPtr, orderBooks_[tradingPair], userId)

AddTradingPair ==
    /\ \E pair \in Pairs : addTradingPair(pair)
    /\ UNCHANGED lockVars
    /\ UNCHANGED contractVars

\* callers pass price 0.0 with a MARKET order
MarketPrice == 0

SubmitOrder ==
    /\ \E userId \in Users, tradingPair \in Pairs, side \in Sides, type \in Types,
          price \in Prices \cup {MarketPrice}, quantity \in Quantities :
           /\ type = "MARKET" <=> price = MarketPrice
           /\ submitOrder(userId, tradingPair, side, type, price, quantity)
           /\ UNCHANGED lockVars
    /\ UNCHANGED contractVars

Cancelled == {i \in DOMAIN orderPtr : orderPtr[i].status = "CANCELLED"}

CancelOrder ==
    /\ Cardinality(Cancelled) < MaxCancels
    /\ \E orderId \in OrderIds, tradingPair \in Pairs : cancelOrder(orderId, tradingPair)
    /\ UNCHANGED lockVars
    /\ UNCHANGED contractVars

Next == AddTradingPair \/ SubmitOrder \/ CancelOrder

Spec == Init /\ [][Next]_vars

\* ---- the engine with two pairs, two users and rejected submissions ----
EnginePairs == {"ETH/USDT", "BTC/USDT"}
EngineUsers == {"user1", "user2"}

EngineAddTradingPair ==
    /\ \E pair \in EnginePairs : addTradingPair(pair)
    /\ UNCHANGED lockVars
    /\ UNCHANGED contractVars

EngineSubmitOrder ==
    /\ \E userId \in EngineUsers, tradingPair \in EnginePairs, side \in Sides,
          type \in Types, price \in 0..MaxPrice, quantity \in 0..MaxQty :
           /\ type = "MARKET" => price = MarketPrice
           /\ orderIdCounter_ < EngineMaxOrders
                 \/ submitThrows(tradingPair, type, price, quantity) # "ok"
           /\ submitOrder(userId, tradingPair, side, type, price, quantity)
           /\ UNCHANGED lockVars
    /\ UNCHANGED contractVars

EngineCancelOrder ==
    /\ Cardinality(Cancelled) < MaxCancels
    /\ \E orderId \in OrderIds, tradingPair \in EnginePairs :
           cancelOrder(orderId, tradingPair)
    /\ UNCHANGED lockVars
    /\ UNCHANGED contractVars

NextEngine == EngineAddTradingPair \/ EngineSubmitOrder \/ EngineCancelOrder

SpecEngine == Init /\ [][NextEngine]_vars

\* ---- submitOrder called from two threads ----
\* submitOrder holds no lock of its own: getOrderBook (engine mutex), the
\* atomic ++orderIdCounter_ and OrderBook::addOrder (book mutex) are three
\* separate accesses to shared state, and other threads run in between.
inFlight == {t \in Threads : threads[t].pc # "idle"}

\* lines 25-36: the argument checks and getOrderBook
submitEnter(t, userId, tradingPair, side, type, price, quantity) ==
    /\ threads[t].pc = "idle"
    /\ IF submitThrows(tradingPair, type, price, quantity) # "ok"
       THEN /\ lastResult' = Result("submitOrder", 0, <<>>,
                                    submitThrows(tradingPair, type, price, quantity))
            /\ UNCHANGED threads
       ELSE /\ orderIdCounter_ + Cardinality(inFlight) < EngineMaxOrders
            /\ threads' = [threads EXCEPT ![t] =
                   [pc |-> "generate", userId |-> userId, tradingPair |-> tradingPair,
                    side |-> side, type |-> type, price |-> price,
                    quantity |-> quantity, orderId |-> 0, data |-> NoData]]
            /\ UNCHANGED lastResult
    /\ UNCHANGED <<orderBooks_, orderIdCounter_, orderPtr, tradeLog>>

\* faulty variant of submitGenerate: the id is the number of orders stored plus one
submitGenerate_counted(t) ==
    /\ threads[t].pc = "generate"
    /\ orderIdCounter_' = generateOrderId
    /\ threads' = [threads EXCEPT ![t].pc = "add",
                                  ![t].orderId = Cardinality(DOMAIN orderPtr) + 1]
    /\ UNCHANGED <<orderBooks_, orderPtr, tradeLog, lastResult>>

\* line 38: uint64_t orderId = generateOrderId()
submitGenerate(t) ==
    /\ threads[t].pc = "generate"
    /\ orderIdCounter_' = generateOrderId
    /\ threads' = [threads EXCEPT ![t].pc = "add", ![t].orderId = generateOrderId]
    /\ UNCHANGED <<orderBooks_, orderPtr, tradeLog, lastResult>>

\* the Order object of lines 39-41
orderOf(th) ==
    Order(th.orderId, th.userId, th.tradingPair, th.side, th.type, th.price, th.quantity)

\* lines 39-43: make_shared<Order> and orderBook->addOrder(order)
submitAdd(t) ==
    /\ threads[t].pc = "add"
    /\ addOrderReturns(addOrder(makeShared(orderOf(threads[t])),
                                orderBooks_[threads[t].tradingPair],
                                threads[t].orderId),
                       threads[t].tradingPair, threads[t].orderId)
    /\ threads' = [threads EXCEPT ![t] = Idle]
    /\ UNCHANGED orderIdCounter_

ThreadAddTradingPair ==
    /\ \E pair \in EnginePairs : addTradingPair(pair)
    /\ UNCHANGED lockVars
    /\ UNCHANGED contractVars

ThreadSubmitEnter ==
    /\ \E t \in Threads, userId \in Users, tradingPair \in EnginePairs, side \in Sides,
          type \in Types, price \in Prices \cup {MarketPrice}, quantity \in Quantities :
           /\ type = "MARKET" <=> price = MarketPrice
           /\ submitEnter(t, userId, tradingPair, side, type, price, quantity)
           /\ UNCHANGED mutex_
    /\ UNCHANGED contractVars

ThreadSubmitGenerate ==
    /\ \E t \in Threads : submitGenerate(t)
    /\ UNCHANGED mutex_
    /\ UNCHANGED contractVars

ThreadSubmitAdd ==
    /\ \E t \in Threads : submitAdd(t)
    /\ UNCHANGED mutex_
    /\ UNCHANGED contractVars

ThreadCancelOrder ==
    /\ Cardinality(Cancelled) < MaxCancels
    /\ \E orderId \in OrderIds, tradingPair \in EnginePairs : cancelOrder(orderId, tradingPair)
    /\ UNCHANGED lockVars
    /\ UNCHANGED contractVars

NextThreads ==
    \/ ThreadAddTradingPair
    \/ ThreadSubmitEnter
    \/ ThreadSubmitGenerate
    \/ ThreadSubmitAdd
    \/ ThreadCancelOrder

SpecThreads == Init /\ [][NextThreads]_vars

\* ---- the public calls, one step per lock acquisition and per critical section ----
\* A thread inside a call is at the statement it executes next.  A
\* std::lock_guard is a step that takes the mutex when it is free; the
\* statements up to the next lock acquisition or to the end of the guard's
\* scope are the following step.
at(t, pc) == threads[t].pc = pc
goto(t, pc) == threads' = [threads EXCEPT ![t].pc = pc]
return(t) == threads' = [threads EXCEPT ![t] = Idle]

\* std::lock_guard<std::mutex> lock(mutex_) of the engine
engineLock(t, from, to) ==
    /\ at(t, from)
    /\ mutex_ = "none"
    /\ mutex_' = t
    /\ goto(t, to)
    /\ UNCHANGED <<orderBooks_, orderIdCounter_, orderPtr, tradeLog, lastResult>>

\* std::lock_guard<std::mutex> lock(mutex_) of the book the call looked up
bookLock(t, from, to) ==
    /\ at(t, from)
    /\ orderBooks_[threads[t].tradingPair].mutex_ = "none"
    /\ orderBooks_' = [orderBooks_ EXCEPT ![threads[t].tradingPair].mutex_ = t]
    /\ goto(t, to)
    /\ UNCHANGED <<mutex_, orderIdCounter_, orderPtr, tradeLog, lastResult>>

\* a call with its arguments stored, before its first statement
call(t, pc, userId, tradingPair, orderId) ==
    /\ at(t, "idle")
    /\ threads' = [threads EXCEPT ![t].pc = pc, ![t].userId = userId,
                                  ![t].tradingPair = tradingPair,
                                  ![t].orderId = orderId]
    /\ UNCHANGED <<orderBooks_, orderIdCounter_, orderPtr, tradeLog, lastResult, mutex_>>

\* addTradingPair: line 9, then lines 11-16 and the end of the guard
addTradingPairBody(t) ==
    /\ at(t, "addTradingPair:body")
    /\ addTradingPair(threads[t].tradingPair)
    /\ mutex_' = "none"
    /\ return(t)

\* submitOrder, lines 25-31 passed: about to call getOrderBook
submitChecked(t, userId, tradingPair, side, type, price, quantity) ==
    /\ at(t, "idle")
    /\ quantity > 0
    /\ type = "LIMIT" => price > 0
    /\ threads' = [threads EXCEPT ![t] =
           [pc |-> "submitOrder:getOrderBook", userId |-> userId,
            tradingPair |-> tradingPair, side |-> side, type |-> type,
            price |-> price, quantity |-> quantity, orderId |-> 0, data |-> NoData]]
    /\ UNCHANGED <<orderBooks_, orderIdCounter_, orderPtr, tradeLog, lastResult, mutex_>>

\* getOrderBook lines 58-63 and the end of its guard, then submitOrder lines 34-36
submitFind(t) ==
    /\ at(t, "submitOrder:find")
    /\ mutex_' = "none"
    /\ IF threads[t].tradingPair \notin DOMAIN orderBooks_
       THEN /\ lastResult' = Result("submitOrder", 0, <<>>, "UnknownPair")
            /\ return(t)
       ELSE /\ goto(t, "generate")
            /\ UNCHANGED lastResult
    /\ UNCHANGED <<orderBooks_, orderIdCounter_, orderPtr, tradeLog>>

\* the state after addOrder returned r and its guard released the book mutex
addOrderUnlocks(r, tradingPair, orderId) ==
    /\ orderPtr' = r.h
    /\ orderBooks_' = [orderBooks_ EXCEPT ![tradingPair] = [r.book EXCEPT !.mutex_ = "none"]]
    /\ tradeLog' = tradeLog \o
           [k \in 1..Len(r.trades) |-> [trade |-> r.trades[k], taker |-> orderId]]
    /\ lastResult' = Result("submitOrder", orderId, r.trades, r.ret)

\* OrderBook::addOrder lines 709-727 under the book mutex
addOrderBody(t) ==
    /\ at(t, "addOrder:body")
    /\ addOrderUnlocks(addOrder(makeShared(orderOf(threads[t])),
                                orderBooks_[threads[t].tradingPair],
                                threads[t].orderId),
                       threads[t].tradingPair, threads[t].orderId)
    /\ return(t)
    /\ UNCHANGED <<orderIdCounter_, mutex_>>

\* faulty variant of cancelFind: the lookup is orderBooks_[tradingPair], which
\* inserts a book for a symbol that has none
cancelFind_creates(t) ==
    /\ at(t, "cancelOrder:find")
    /\ mutex_' = "none"
    /\ IF threads[t].tradingPair \notin DOMAIN orderBooks_
       THEN /\ lastResult' = Result("cancelOrder", 0, <<>>, "false")
            /\ orderBooks_' = [p \in (DOMAIN orderBooks_) \cup {threads[t].tradingPair} |->
                                  IF p \in DOMAIN orderBooks_ THEN orderBooks_[p]
                                  ELSE OrderBook(p)]
            /\ return(t)
       ELSE /\ goto(t, "cancelOrder:lock")
            /\ UNCHANGED <<lastResult, orderBooks_>>
    /\ UNCHANGED <<orderIdCounter_, orderPtr, tradeLog>>

\* getOrderBook lines 58-63 and the end of its guard, then cancelOrder lines 48-50
cancelFind(t) ==
    /\ at(t, "cancelOrder:find")
    /\ mutex_' = "none"
    /\ IF threads[t].tradingPair \notin DOMAIN orderBooks_
       THEN /\ lastResult' = Result("cancelOrder", 0, <<>>, "false")
            /\ return(t)
       ELSE /\ goto(t, "cancelOrder:lock")
            /\ UNCHANGED lastResult
    /\ UNCHANGED <<orderBooks_, orderIdCounter_, orderPtr, tradeLog>>

\* the state after OrderBook::cancelOrder returned r and released the book mutex
cancelOrderUnlocks(r, tradingPair, orderId) ==
    /\ orderPtr' = r.h
    /\ orderBooks_' = [orderBooks_ EXCEPT ![tradingPair] = [r.book EXCEPT !.mutex_ = "none"]]
    /\ lastResult' = IF r.ret THEN Result("cancelOrder", orderId, <<>>, "true")
                     ELSE Result("cancelOrder", 0, <<>>, "false")

\* OrderBook::cancelOrder under the book mutex
cancelOrderBody(t) ==
    /\ at(t, "cancelOrder:body")
    /\ cancelOrderUnlocks(bookCancelOrder(orderPtr, orderBooks_[threads[t].tradingPair],
                                          threads[t].orderId),
                          threads[t].tradingPair, threads[t].orderId)
    /\ return(t)
    /\ UNCHANGED <<orderIdCounter_, tradeLog, mutex_>>

\* getMarketData lines 69-72 under the engine mutex
marketDataFind(t) ==
    /\ at(t, "getMarketData:find")
    /\ IF threads[t].tradingPair \notin DOMAIN orderBooks_
       THEN /\ lastResult' = Result("getMarketData", 0, <<>>, "UnknownPair")
            /\ mutex_' = "none"
            /\ return(t)
       ELSE /\ goto(t, "getBestBid:lock")
            /\ UNCHANGED <<lastResult, mutex_>>
    /\ UNCHANGED <<orderBooks_, orderIdCounter_, orderPtr, tradeLog>>

\* faulty variant of bookRead: the book mutex is still held after the read
bookRead_holds(t, from, to, data) ==
    /\ at(t, from)
    /\ threads' = [threads EXCEPT ![t].pc = to, ![t].data = data]
    /\ UNCHANGED <<orderBooks_, orderIdCounter_, orderPtr, tradeLog, lastResult, mutex_>>

\* a read of the book under its mutex, which the end of the guard releases:
\* the thread goes on at pc with data as its MarketData so far
bookRead(t, from, to, data) ==
    /\ at(t, from)
    /\ orderBooks_' = [orderBooks_ EXCEPT ![threads[t].tradingPair].mutex_ = "none"]
    /\ threads' = [threads EXCEPT ![t].pc = to, ![t].data = data]
    /\ UNCHANGED <<orderIdCounter_, orderPtr, tradeLog, lastResult, mutex_>>

\* line 77: data.bestBid = orderBook->getBestBid()
getBestBidBody(t) ==
    bookRead(t, "getBestBid:body", "getBestAsk:lock",
             [threads[t].data EXCEPT
                 !.bestBid = getBestBid(orderBooks_[threads[t].tradingPair])])

\* lines 78-81: data.bestAsk = orderBook->getBestAsk() and data.spread
getBestAskBody(t) ==
    bookRead(t, "getBestAsk:body", "getBidDepth:lock",
             [threads[t].data EXCEPT
                 !.bestAsk = getBestAsk(orderBooks_[threads[t].tradingPair]),
                 !.spread = spreadOf(threads[t].data.bestBid,
                                     getBestAsk(orderBooks_[threads[t].tradingPair]))])

\* line 82: data.bidDepth = orderBook->getBidDepth(10)
getBidDepthBody(t) ==
    bookRead(t, "getBidDepth:body", "getAskDepth:lock",
             [threads[t].data EXCEPT
                 !.bidDepth = getBidDepth(orderPtr, orderBooks_[threads[t].tradingPair],
                                          DefaultDepth)])

\* lines 83-85: data.askDepth = orderBook->getAskDepth(10), return data, and
\* the end of the engine guard
getAskDepthBody(t) ==
    /\ at(t, "getAskDepth:body")
    /\ orderBooks_' = [orderBooks_ EXCEPT ![threads[t].tradingPair].mutex_ = "none"]
    /\ lastResult' = Value("getMarketData",
           [threads[t].data EXCEPT
               !.askDepth = getAskDepth(orderPtr, orderBooks_[threads[t].tradingPair],
                                        DefaultDepth)])
    /\ mutex_' = "none"
    /\ return(t)
    /\ UNCHANGED <<orderIdCounter_, orderPtr, tradeLog>>

\* getUserOrders lines 92-95 under the engine mutex
userOrdersFind(t) ==
    /\ at(t, "getUserOrders:find")
    /\ IF threads[t].tradingPair \notin DOMAIN orderBooks_
       THEN /\ lastResult' = Value("getUserOrders", {})
            /\ mutex_' = "none"
            /\ return(t)
       ELSE /\ goto(t, "bookGetUserOrders:lock")
            /\ UNCHANGED <<lastResult, mutex_>>
    /\ UNCHANGED <<orderBooks_, orderIdCounter_, orderPtr, tradeLog>>

\* line 97: OrderBook::getUserOrders under the book mutex, and the return
userOrdersBody(t) ==
    /\ at(t, "bookGetUserOrders:body")
    /\ orderBooks_' = [orderBooks_ EXCEPT ![threads[t].tradingPair].mutex_ = "none"]
    /\ lastResult' = Value("getUserOrders",
           bookGetUserOrders(orderPtr, orderBooks_[threads[t].tradingPair],
                             threads[t].userId))
    /\ mutex_' = "none"
    /\ return(t)
    /\ UNCHANGED <<orderIdCounter_, orderPtr, tradeLog>>

\* threads between the lock and the end of addTradingPair: line 15 writes orderBooks_
writingRegistry == {t \in Threads : at(t, "addTradingPair:body")}

\* getTradingPairCount: orderBooks_.size() read with no lock held.  Read
\* while another thread is inserting, the value is whatever the build yields.
tradingPairCountRead(t) ==
    /\ at(t, "getTradingPairCount:read")
    /\ \E n \in IF writingRegistry = {} THEN {Cardinality(DOMAIN orderBooks_)}
                ELSE 0..Cardinality(EnginePairs) :
           lastResult' = Value("getTradingPairCount", n)
    /\ return(t)
    /\ UNCHANGED <<orderBooks_, orderIdCounter_, orderPtr, tradeLog, mutex_>>

\* getTotalOrders: one load of the atomic counter
getTotalOrders(t) ==
    /\ at(t, "idle")
    /\ lastResult' = Value("getTotalOrders", orderIdCounter_)
    /\ UNCHANGED <<orderBooks_, orderIdCounter_, orderPtr, tradeLog, threads, mutex_>>

\* ids offered to cancelOrder under SpecLocks: those submitOrder can hand out
LockOrderIds == 1..LockMaxOrders

\* under SpecLocks one thread changes the engine and the other one queries it
Writers == {"t1"}
Readers == {"t2"}

\* the steps of thread t inside addTradingPair
addTradingPairSteps(t) ==
    \/ engineLock(t, "addTradingPair:lock", "addTradingPair:body")
    \/ addTradingPairBody(t)

\* the steps of thread t inside submitOrder
submitOrderSteps(t) ==
    \/ engineLock(t, "submitOrder:getOrderBook", "submitOrder:find")
    \/ submitFind(t)
    \/ submitGenerate(t) /\ UNCHANGED mutex_
    \/ bookLock(t, "add", "addOrder:body")
    \/ addOrderBody(t)

\* the steps of thread t inside cancelOrder
cancelOrderSteps(t) ==
    \/ engineLock(t, "cancelOrder:getOrderBook", "cancelOrder:find")
    \/ cancelFind(t)
    \/ bookLock(t, "cancelOrder:lock", "cancelOrder:body")
    \/ cancelOrderBody(t)

\* the steps of thread t inside getMarketData
getMarketDataSteps(t) ==
    \/ engineLock(t, "getMarketData:lock", "getMarketData:find")
    \/ marketDataFind(t)
    \/ bookLock(t, "getBestBid:lock", "getBestBid:body")
    \/ getBestBidBody(t)
    \/ bookLock(t, "getBestAsk:lock", "getBestAsk:body")
    \/ getBestAskBody(t)
    \/ bookLock(t, "getBidDepth:lock", "getBidDepth:body")
    \/ getBidDepthBody(t)
    \/ bookLock(t, "getAskDepth:lock", "getAskDepth:body")
    \/ getAskDepthBody(t)

\* the steps of thread t inside getUserOrders
getUserOrdersSteps(t) ==
    \/ engineLock(t, "getUserOrders:lock", "getUserOrders:find")
    \/ userOrdersFind(t)
    \/ bookLock(t, "bookGetUserOrders:lock", "bookGetUserOrders:body")
    \/ userOrdersBody(t)

LockAddTradingPair ==
    /\ \E t \in Writers :
           \/ \E pair \in EnginePairs : call(t, "addTradingPair:lock", "", pair, 0)
           \/ addTradingPairSteps(t)
    /\ UNCHANGED contractVars

LockSubmitOrder ==
    /\ \E t \in Writers :
           \/ /\ \E userId \in Users, tradingPair \in EnginePairs, side \in Sides,
                    type \in Types, price \in Prices \cup {MarketPrice},
                    quantity \in Quantities :
                     /\ type = "MARKET" <=> price = MarketPrice
                     /\ orderIdCounter_ < LockMaxOrders
                     /\ submitChecked(t, userId, tradingPair, side, type, price, quantity)
           \/ submitOrderSteps(t)
    /\ UNCHANGED contractVars

LockCancelOrder ==
    /\ \E t \in Writers :
           \/ /\ Cardinality(Cancelled) < MaxCancels
              /\ \E orderId \in LockOrderIds, pair \in EnginePairs :
                     call(t, "cancelOrder:getOrderBook", "", pair, orderId)
           \/ cancelOrderSteps(t)
    /\ UNCHANGED contractVars

LockGetMarketData ==
    /\ \E t \in Readers :
           \/ \E pair \in EnginePairs : call(t, "getMarketData:lock", "", pair, 0)
           \/ getMarketDataSteps(t)
    /\ UNCHANGED contractVars

LockGetUserOrders ==
    /\ \E t \in Readers :
           \/ \E userId \in Users, pair \in EnginePairs :
                  call(t, "getUserOrders:lock", userId, pair, 0)
           \/ getUserOrdersSteps(t)
    /\ UNCHANGED contractVars

LockStatistics ==
    /\ \E t \in Readers :
           \/ call(t, "getTradingPairCount:read", "", "", 0)
           \/ tradingPairCountRead(t)
           \/ getTotalOrders(t)
    /\ UNCHANGED contractVars

NextLocks ==
    \/ LockAddTradingPair
    \/ LockSubmitOrder
    \/ LockCancelOrder
    \/ LockGetMarketData
    \/ LockGetUserOrders
    \/ LockStatistics

SpecLocks == Init /\ [][NextLocks]_vars

\* ---- the public calls under fair scheduling ----
\* One writer and one reader call into one trading pair; submissions are
\* LIMIT orders at one price, so that up to FairMaxOrders orders meet in one
\* price level.
FairAddTradingPair ==
    /\ \E t \in Writers :
           \/ \E pair \in Pairs : call(t, "addTradingPair:lock", "", pair, 0)
           \/ addTradingPairSteps(t)
    /\ UNCHANGED contractVars

FairSubmitOrder ==
    /\ \E t \in Writers :
           \/ /\ orderIdCounter_ < FairMaxOrders
              /\ \E userId \in Users, tradingPair \in Pairs, side \in Sides,
                    price \in {MaxPrice}, quantity \in Quantities :
                     submitChecked(t, userId, tradingPair, side, "LIMIT", price, quantity)
           \/ submitOrderSteps(t)
    /\ UNCHANGED contractVars

FairCancelOrder ==
    /\ \E t \in Writers :
           \/ /\ Cardinality(Cancelled) < MaxCancels
              /\ \E orderId \in 1..FairMaxOrders, pair \in Pairs :
                     call(t, "cancelOrder:getOrderBook", "", pair, orderId)
           \/ cancelOrderSteps(t)
    /\ UNCHANGED contractVars

FairGetMarketData ==
    /\ \E t \in Readers :
           \/ \E pair \in Pairs : call(t, "getMarketData:lock", "", pair, 0)
           \/ getMarketDataSteps(t)
    /\ UNCHANGED contractVars

FairGetUserOrders ==
    /\ \E t \in Readers :
           \/ \E userId \in Users, pair \in Pairs :
                  call(t, "getUserOrders:lock", userId, pair, 0)
           \/ getUserOrdersSteps(t)
    /\ UNCHANGED contractVars

NextFair ==
    \/ FairAddTradingPair
    \/ FairSubmitOrder
    \/ FairCancelOrder
    \/ FairGetMarketData
    \/ FairGetUserOrders

\* positions at which a thread is about to construct a lock_guard
engineLockPcs == {"addTradingPair:lock", "submitOrder:getOrderBook",
                  "cancelOrder:getOrderBook", "getMarketData:lock", "getUserOrders:lock"}
bookLockPcs == {"add", "cancelOrder:lock", "getBestBid:lock", "getBestAsk:lock",
                "getBidDepth:lock", "getAskDepth:lock", "bookGetUserOrders:lock"}

\* the lock_guard constructor blocks while the mutex is held
blocked(t) ==
    \/ threads[t].pc \in engineLockPcs /\ mutex_ # "none"
    \/ threads[t].pc \in bookLockPcs
          /\ orderBooks_[threads[t].tradingPair].mutex_ # "none"

\* a thread inside a call whose next statement can execute
runnable(t) == threads[t].pc # "idle" /\ ~blocked(t)

\* thread t executes its next statement: any step that moves a thread that
\* is inside a call.  The first disjunct is an instance of the second one,
\* written out so that ENABLED runs(t) is computed from the position of the
\* thread and the mutexes alone: it is runnable(t).
runs(t) ==
    /\ runnable(t)
    /\ \/ /\ threads' = [threads EXCEPT ![t] = Idle]
          /\ UNCHANGED <<orderBooks_, orderIdCounter_, orderPtr, tradeLog,
                         lastResult, mutex_, dex, tx>>
       \/ threads'[t] # threads[t]

\* the scheduler does not leave a thread that can run waiting forever
SpecFair == Init /\ [][NextFair]_vars /\ \A t \in Threads : WF_vars(runs(t))

\* ---- vocabulary of the properties ----
Range(s) == {s[k] : k \in 1..Len(s)}

\* ids held in the price levels of one ladder
ladderIds(m) == UNION {Range(m[p]) : p \in DOMAIN m}

\* number of places (level, position) at which id occurs in a ladder
occurrences(m, id) ==
    Cardinality({<<p, k>> \in (DOMAIN m) \X (1..MaxOrders + 1) :
                    k <= Len(m[p]) /\ m[p][k] = id})

ownLadder(b, o) == IF o.side = "BUY" THEN b.bids_ ELSE b.asks_
otherLadder(b, o) == IF o.side = "BUY" THEN b.asks_ ELSE b.bids_

isResting(b, id) ==
    /\ occurrences(ownLadder(b, orderPtr[id]), id) = 1
    /\ occurrences(otherLadder(b, orderPtr[id]), id) = 0
    /\ orderPtr[id].status \in {"PENDING", "PARTIAL"}
    /\ getRemainingQuantity(orderPtr[id]) > 0

makerOf(t, taker) == IF t.buyOrderId = taker THEN t.sellOrderId ELSE t.buyOrderId

\* total quantity of the first n trades of a list that reference id
RECURSIVE tradedQty(_, _, _)
tradedQty(trades, n, id) ==
    IF n = 0 THEN 0
    ELSE tradedQty(trades, n - 1, id) +
         (IF id \in {trades[n].buyOrderId, trades[n].sellOrderId}
          THEN trades[n].quantity ELSE 0)

loggedTrades == [k \in 1..Len(tradeLog) |-> tradeLog[k].trade]

\* a step that is an accepted submission
isSubmitStep == orderIdCounter_' = orderIdCounter_ + 1

\* ---- C1 ----
\* C1: an order id is in a book's directory orders_ iff the order rests in
\* exactly one price level on its own side with status pending or partial
\* and remaining quantity > 0; filled takers and filled makers are absent.
C1_DirectoryIffResting ==
    \A pair \in DOMAIN orderBooks_ : \A id \in DOMAIN orderPtr :
        orderPtr[id].tradingPair = pair =>
            (id \in orderBooks_[pair].orders_ <=> isResting(orderBooks_[pair], id))

\* ---- C2 ----
\* C2: a MARKET order is never parked: it is in neither ladder and not in
\* the directory once its submission has returned.
C2_MarketNeverParked ==
    \A pair \in DOMAIN orderBooks_ : \A id \in DOMAIN orderPtr :
        orderPtr[id].type = "MARKET" =>
            /\ id \notin ladderIds(orderBooks_[pair].bids_)
            /\ id \notin ladderIds(orderBooks_[pair].asks_)
            /\ id \notin orderBooks_[pair].orders_

\* ---- C3 ----
\* C3: whenever both ladders of a book are non-empty, the best bid price is
\* strictly below the best ask price.
C3_NeverCrossed ==
    \A pair \in DOMAIN orderBooks_ :
        LET b == orderBooks_[pair]
        IN (DOMAIN b.bids_ # {} /\ DOMAIN b.asks_ # {}) =>
               bidsBegin(b.bids_) < asksBegin(b.asks_)

\* both sides populated right after a LIMIT taker traded and then rested
C3_Witness ==
    \E pair \in DOMAIN orderBooks_ :
        /\ DOMAIN orderBooks_[pair].bids_ # {}
        /\ DOMAIN orderBooks_[pair].asks_ # {}
        /\ lastResult.op = "submitOrder"
        /\ lastResult.trades # <<>>
        /\ orderPtr[lastResult.orderId].type = "LIMIT"
        /\ lastResult.orderId \in ladderIds(ownLadder(orderBooks_[pair], orderPtr[lastResult.orderId]))

\* ---- C4 ----
\* C4: FIFO time priority: of two orders resting in the same price level, the
\* later submitted one receives a fill only in a step that leaves the earlier
\* one completely filled.
C4_FIFO ==
    [][\A pair \in DOMAIN orderBooks_ :
         \A m \in {orderBooks_[pair].bids_, orderBooks_[pair].asks_} :
           \A p \in DOMAIN m : \A a, b \in Range(m[p]) :
               (a < b /\ orderPtr'[b].filledQuantity > orderPtr[b].filledQuantity)
                   => isFilled(orderPtr'[a])]_vars

\* two makers of one level were hit by the same taker, the earlier one first
C4_Witness ==
    \E i, j \in 1..Len(tradeLog) :
        /\ i < j
        /\ tradeLog[i].taker = tradeLog[j].taker
        /\ tradeLog[i].trade.price = tradeLog[j].trade.price
        /\ makerOf(tradeLog[i].trade, tradeLog[i].taker)
             < makerOf(tradeLog[j].trade, tradeLog[j].taker)

\* ---- C5 ----
\* C5: best price first: while one incoming order is matched, no trade
\* happens at price P as long as an opposite resting order with positive
\* remaining quantity sits at a strictly better price.
C5_BestPriceFirst ==
    [][isSubmitStep =>
        LET taker == orderIdCounter_'
            o == orderPtr'[taker]
            trades == lastResult'.trades
            b == orderBooks_[o.tradingPair]
            opposite == ladderIds(otherLadder(b, o))
            better(x, y) == IF o.side = "BUY" THEN x < y ELSE x > y
        IN \A k \in 1..Len(trades) : \A r \in opposite :
               better(orderPtr[r].price, trades[k].price) =>
                   getRemainingQuantity(orderPtr[r]) - tradedQty(trades, k - 1, r) = 0]_vars

\* one submission swept two price levels
C5_Witness ==
    /\ lastResult.op = "submitOrder"
    /\ Len(lastResult.trades) >= 2
    /\ lastResult.trades[1].price # lastResult.trades[2].price

\* ---- C6 ----
\* C6: price improvement: a trade produced by an incoming LIMIT order has
\* price <= the taker's limit for a buy taker, >= for a sell taker.
C6_PriceImprovement ==
    \A k \in 1..Len(tradeLog) :
        LET t == tradeLog[k].trade
            o == orderPtr[tradeLog[k].taker]
        IN o.type = "LIMIT" =>
               IF o.side = "BUY" THEN t.price <= o.price ELSE t.price >= o.price

\* a LIMIT taker traded strictly inside its limit
C6_Witness ==
    \E k \in 1..Len(tradeLog) :
        /\ orderPtr[tradeLog[k].taker].type = "LIMIT"
        /\ tradeLog[k].trade.price # orderPtr[tradeLog[k].taker].price

\* ---- C7 ----
\* C7: each trade's price is the price of the resting order it was matched
\* against and its quantity is min(taker remaining, maker remaining) as they
\* stood immediately before the fill.
C7_TradePriceAndQuantity ==
    [][isSubmitStep =>
        LET taker == orderIdCounter_'
            trades == lastResult'.trades
        IN \A k \in 1..Len(trades) :
               LET m == makerOf(trades[k], taker)
               IN /\ m \in DOMAIN orderPtr
                  /\ trades[k].price = orderPtr[m].price
                  /\ trades[k].quantity =
                        Min(orderPtr'[taker].quantity - tradedQty(trades, k - 1, taker),
                            getRemainingQuantity(orderPtr[m]) - tradedQty(trades, k - 1, m))]_vars

\* a taker larger than the maker it met: the maker's remainder set the quantity
C7_Witness ==
    /\ lastResult.op = "submitOrder"
    /\ Len(lastResult.trades) >= 1
    /\ lastResult.trades[1].quantity < orderPtr[lastResult.orderId].quantity
    /\ orderPtr[makerOf(lastResult.trades[1], lastResult.orderId)].price
           # orderPtr[lastResult.orderId].price

C9_TradeShape ==
    \A k \in 1..Len(tradeLog) :
        LET t == tradeLog[k].trade
        IN /\ t.quantity > 0
           /\ t.buyOrderId \in DOMAIN orderPtr
           /\ t.sellOrderId \in DOMAIN orderPtr
           /\ orderPtr[t.buyOrderId].side = "BUY"
           /\ orderPtr[t.sellOrderId].side = "SELL"
           /\ t.buyOrderId # t.sellOrderId
           /\ (t.buyOrderId = tradeLog[k].taker) # (t.sellOrderId = tradeLog[k].taker)

\* trades of a buy taker and of a sell taker have both been emitted
C9_Witness ==
    \E i, j \in 1..Len(tradeLog) :
        /\ tradeLog[i].trade.buyOrderId = tradeLog[i].taker
        /\ tradeLog[j].trade.sellOrderId = tradeLog[j].taker

\* ---- C10 ----
\* C10: quantity conservation: each order's filledQuantity is the sum of the
\* quantities of all emitted trades that reference its id.
C10_QuantityConservation ==
    \A id \in DOMAIN orderPtr :
        orderPtr[id].filledQuantity = tradedQty(loggedTrades, Len(tradeLog), id)

\* an order took part in two trades, another one is partly filled
C10_Witness ==
    \E id, other \in DOMAIN orderPtr :
        /\ Cardinality({k \in 1..Len(tradeLog) :
              id \in {tradeLog[k].trade.buyOrderId, tradeLog[k].trade.sellOrderId}}) >= 2
        /\ 0 < orderPtr[other].filledQuantity
        /\ orderPtr[other].filledQuantity < orderPtr[other].quantity

\* ---- C11 ----
\* C11: once an order's status is FILLED or CANCELLED, no later call changes
\* its status or its filled quantity.
C11_TerminalStatus ==
    [][\A id \in DOMAIN orderPtr :
          orderPtr[id].status \in {"FILLED", "CANCELLED"} =>
              /\ orderPtr'[id].status = orderPtr[id].status
              /\ orderPtr'[id].filledQuantity = orderPtr[id].filledQuantity]_vars

\* ---- C12 ----
\* C12: cancel(id) returns true iff id names an order resting in the book
\* (pending or partial); false for unknown, filled and already cancelled ids.
C12_CancelTrueIffResting ==
    [][\A orderId \in OrderIds, tradingPair \in Pairs :
          cancelOrder(orderId, tradingPair) =>
              (lastResult'.ret = "true" <=>
                  /\ tradingPair \in DOMAIN orderBooks_
                  /\ orderId \in DOMAIN orderPtr
                  /\ isResting(orderBooks_[tradingPair], orderId))]_vars

\* ---- C13 ----
\* C13: a cancelled order is in neither ladder and not in the directory, the
\* price level it left is gone if it became empty, and no trade emitted
\* after the cancel references its id.
C13_CancelledIsGone ==
    [][\A id \in DOMAIN orderPtr' :
          orderPtr'[id].status = "CANCELLED" =>
              \A pair \in DOMAIN orderBooks_' :
                  LET b == orderBooks_'[pair]
                  IN /\ id \notin ladderIds(b.bids_)
                     /\ id \notin ladderIds(b.asks_)
                     /\ id \notin b.orders_
                     /\ \A p \in DOMAIN b.bids_ : b.bids_[p] # <<>>
                     /\ \A p \in DOMAIN b.asks_ : b.asks_[p] # <<>>
                     /\ (id \in DOMAIN orderPtr /\ orderPtr[id].status = "CANCELLED") =>
                            tradedQty([k \in 1..Len(tradeLog') |-> tradeLog'[k].trade],
                                      Len(tradeLog'), id)
                              = tradedQty(loggedTrades, Len(tradeLog), id)]_vars

\* a resting order was cancelled, leaving orders behind that traded afterwards
C13_Witness ==
    /\ lastResult.op = "submitOrder"
    /\ lastResult.trades # <<>>
    /\ \E id \in DOMAIN orderPtr :
          /\ orderPtr[id].status = "CANCELLED"
          /\ orderPtr[id].filledQuantity < orderPtr[id].quantity
          /\ id < lastResult.orderId

\* ---- C14 ----
\* C14: a failed submit has no effect: quantity <= 0 and a LIMIT price <= 0
\* fail with InvalidArgument, an unregistered symbol with UnknownPair, and
\* books, registry, orders and id counter are unchanged.
C14_FailedSubmitNoEffect ==
    /\ [](\A tradingPair \in EnginePairs, type \in Types,
             price \in 0..MaxPrice, quantity \in 0..MaxQty :
             /\ (quantity <= 0 \/ (type = "LIMIT" /\ price <= 0)) =>
                    submitThrows(tradingPair, type, price, quantity) = "InvalidArgument"
             /\ (quantity > 0 /\ (type = "LIMIT" => price > 0)
                   /\ tradingPair \notin DOMAIN orderBooks_) =>
                    submitThrows(tradingPair, type, price, quantity) = "UnknownPair")
    /\ [][(lastResult'.op = "submitOrder" /\ lastResult'.ret # "ok") =>
             /\ lastResult'.ret \in {"InvalidArgument", "UnknownPair"}
             /\ UNCHANGED <<orderBooks_, orderIdCounter_, orderPtr, tradeLog>>]_vars

\* a submit on an unregistered symbol failed while another book holds orders
C14_Witness ==
    /\ lastResult.op = "submitOrder"
    /\ lastResult.ret = "UnknownPair"
    /\ \E pair \in DOMAIN orderBooks_ : orderBooks_[pair].orders_ # {}

\* ids handed out by generateOrderId whose order is not yet in a book
allocated == {threads[t].orderId : t \in {u \in Threads : threads[u].pc = "add"}}

\* C15: order ids are engine-wide unique and strictly increasing in
\* allocation order, under sequential and under concurrent submissions: two
\* threads between generateOrderId and addOrder never hold the same id, an id
\* held by a thread is the id of no order created before, every id handed
\* out is greater than every id handed out before it, and the order that
\* addOrder stores carries the id of no earlier order.
C15_UniqueIncreasingIds ==
    /\ [](\A t \in Threads : threads[t].pc = "add" =>
             /\ threads[t].orderId \notin DOMAIN orderPtr
             /\ \A u \in Threads \ {t} :
                    threads[u].pc = "add" => threads[u].orderId # threads[t].orderId)
    /\ [][\A t \in Threads :
             /\ (threads[t].pc = "generate" /\ threads'[t].pc = "add") =>
                    \A i \in (DOMAIN orderPtr) \cup allocated : i < threads'[t].orderId
             /\ (threads[t].pc = "add" /\ threads'[t].pc = "idle") =>
                    /\ lastResult'.orderId = threads[t].orderId
                    /\ DOMAIN orderPtr' = (DOMAIN orderPtr) \cup {threads[t].orderId}
                    /\ orderPtr'[threads[t].orderId].id = threads[t].orderId
                    /\ \A i \in DOMAIN orderPtr : orderPtr'[i].id = i]_vars

\* two threads were inside submitOrder at once, and the one that drew the
\* later id has already stored its order while the other still holds its id
C15_Witness ==
    \E t \in Threads :
        /\ threads[t].pc = "add"
        /\ \E i \in DOMAIN orderPtr :
               /\ i > threads[t].orderId
               /\ orderPtr[i].tradingPair # threads[t].tradingPair

\* C16: pair registration is idempotent.  addTradingPair of a symbol returns
\* true exactly when the symbol has no book yet, and then adds one empty
\* book under that symbol; otherwise it returns false and the registry is
\* the same.  Either way every book that existed, with all its resting
\* orders, is untouched, and so are the orders, the id counter and the
\* trades.  No step of any operation removes a book.  (The whole body of
\* addTradingPair runs under the engine mutex, so two threads registering
\* one symbol are two such steps in some order: exactly one returns true.)
C16_IdempotentRegistration ==
    [][/\ \A p \in DOMAIN orderBooks_ : p \in DOMAIN orderBooks_'
       /\ \A pair \in EnginePairs :
             addTradingPair(pair) =>
                 /\ \A p \in DOMAIN orderBooks_ : orderBooks_'[p] = orderBooks_[p]
                 /\ UNCHANGED <<orderIdCounter_, orderPtr, tradeLog>>
                 /\ lastResult'.op = "addTradingPair"
                 /\ IF pair \in DOMAIN orderBooks_
                    THEN /\ lastResult'.ret = "false"
                         /\ DOMAIN orderBooks_' = DOMAIN orderBooks_
                    ELSE /\ lastResult'.ret = "true"
                         /\ DOMAIN orderBooks_' = (DOMAIN orderBooks_) \cup {pair}
                         /\ orderBooks_'[pair].tradingPair_ = pair
                         /\ DOMAIN orderBooks_'[pair].bids_ = {}
                         /\ DOMAIN orderBooks_'[pair].asks_ = {}
                         /\ orderBooks_'[pair].orders_ = {}]_vars

\* a symbol whose book holds a resting order was registered again, while a
\* thread was inside submitOrder
C16_Witness ==
    /\ lastResult.op = "addTradingPair"
    /\ lastResult.ret = "false"
    /\ \E pair \in DOMAIN orderBooks_ : ladderIds(orderBooks_[pair].bids_) # {}
    /\ inFlight # {}

\* sum of the remaining quantities of a set of orders
RECURSIVE remainingOf(_)
remainingOf(ids) ==
    IF ids = {} THEN 0
    ELSE remainingOf(ids \ {MinOf(ids)})
         + (orderPtr[MinOf(ids)].quantity - orderPtr[MinOf(ids)].filledQuantity)

\* d lists min(k, number of levels) levels of ladder m, no level left out is
\* better than a listed one, and each comes with the remaining quantity
\* resting at it
depthLevels(d, m, k, sign) ==
    /\ Len(d) = Min(k, Cardinality(DOMAIN m))
    /\ \A i \in 1..Len(d) :
          /\ d[i][1] \in DOMAIN m
          /\ d[i][2] = remainingOf(Range(m[d[i][1]]))
          /\ \A p \in (DOMAIN m) \ {d[j][1] : j \in 1..Len(d)} :
                 sign * p < sign * d[i][1]
    /\ \A i, j \in 1..Len(d) : i # j => d[i][1] # d[j][1]

\* d is in best-first order: descending prices for sign 1, ascending for -1
bestFirst(d, sign) ==
    \A i, j \in 1..Len(d) : i < j => sign * d[i][1] > sign * d[j][1]

\* C17: depth(side, k) returns exactly min(k, number of levels) entries, the
\* k best levels of the side, in best-first order (descending price for
\* bids, ascending for asks), each with the sum of the remaining quantities
\* of the orders resting at that level.
C17_DepthBestFirst ==
    \A pair \in DOMAIN orderBooks_, k \in 0..(MaxPrice + 2) :
        /\ depthLevels(entries(getBidDepth(orderPtr, orderBooks_[pair], k)),
                       orderBooks_[pair].bids_, k, 1)
        /\ bestFirst(entries(getBidDepth(orderPtr, orderBooks_[pair], k)), 1)
        /\ depthLevels(entries(getAskDepth(orderPtr, orderBooks_[pair], k)),
                       orderBooks_[pair].asks_, k, -1)
        /\ bestFirst(entries(getAskDepth(orderPtr, orderBooks_[pair], k)), -1)

\* best is the best price among the orders ids (highest for sign 1, lowest
\* for sign -1), and the sentinel 0 exactly when there is no such order
bestOf(best, ids, sign) ==
    /\ best = 0 <=> ids = {}
    /\ ids # {} =>
          /\ \E id \in ids : orderPtr[id].price = best
          /\ \A id \in ids : sign * orderPtr[id].price <= sign * best

\* C18: best-bid is the highest price among the orders resting on the bid
\* side and best-ask the lowest price among the orders resting on the ask
\* side; each is the sentinel 0 exactly when its side has no resting order.
C18_BestBidAsk ==
    \A pair \in DOMAIN orderBooks_ :
        /\ bestOf(getBestBid(orderBooks_[pair]),
                  ladderIds(orderBooks_[pair].bids_), 1)
        /\ bestOf(getBestAsk(orderBooks_[pair]),
                  ladderIds(orderBooks_[pair].asks_), -1)

\* the best price among the orders ids, by their own price fields
bestPrice(ids, sign) ==
    CHOOSE p \in {orderPtr[id].price : id \in ids} :
        \A id \in ids : sign * orderPtr[id].price <= sign * p

\* C19: market-data of a registered symbol never fails; its spread is
\* bestAsk - bestBid whenever both sides of the book hold at least one
\* resting order, and 0 whenever either side is empty.
C19_Spread ==
    \A pair \in DOMAIN orderBooks_ :
        /\ getMarketData(pair).ret = "ok"
        /\ getMarketData(pair).spread =
              IF /\ ladderIds(orderBooks_[pair].bids_) # {}
                 /\ ladderIds(orderBooks_[pair].asks_) # {}
              THEN bestPrice(ladderIds(orderBooks_[pair].asks_), -1)
                   - bestPrice(ladderIds(orderBooks_[pair].bids_), 1)
              ELSE 0

\* C20: user-orders(user) returns exactly the orders of that user that are
\* currently resting in the book (status pending or partial): no filled or
\* cancelled order is returned and no resting order of the user is omitted.
C20_UserOrdersAreResting ==
    \A pair \in DOMAIN orderBooks_, userId \in EngineUsers :
        getUserOrders(userId, pair) =
            {id \in DOMAIN orderPtr :
                /\ orderPtr[id].userId = userId
                /\ orderPtr[id].status \in {"PENDING", "PARTIAL"}
                /\ id \in ladderIds(orderBooks_[pair].bids_)
                            \cup ladderIds(orderBooks_[pair].asks_)}

\* the statements that read or write orderBooks_, and those that write it
RegistryAccess == {"addTradingPair:body", "submitOrder:find", "cancelOrder:find",
                   "getMarketData:find", "getUserOrders:find",
                   "getTradingPairCount:read"}
RegistryWrite == {"addTradingPair:body"}
\* the statements that read or write a book's ladders and directory, and
\* those that write them
BookAccess == {"addOrder:body", "cancelOrder:body", "getBestBid:body",
               "getBestAsk:body", "getBidDepth:body", "getAskDepth:body",
               "bookGetUserOrders:body"}
BookWrite == {"addOrder:body", "cancelOrder:body"}

\* C21: thread safety.  A thread is at a statement that reads or writes the
\* pair registry only while it holds the engine mutex, and at a statement
\* that reads or writes a book's ladders or directory only while it holds
\* that book's mutex; so no thread is ever at an access to the registry
\* (or to a book) while another thread is at a write to the same object.
C21_ThreadSafety ==
    \A t \in Threads :
        /\ threads[t].pc \in RegistryAccess =>
              /\ mutex_ = t
              /\ \A u \in Threads \ {t} : threads[u].pc \notin RegistryWrite
        /\ threads[t].pc \in BookAccess =>
              /\ orderBooks_[threads[t].tradingPair].mutex_ = t
              /\ \A u \in Threads \ {t} :
                     threads[u].pc \in BookWrite =>
                         threads[u].tradingPair # threads[t].tradingPair

\* the lock acquisitions of submit, cancel, market-data and user-orders
EngineLockOfBookCall == {"submitOrder:getOrderBook", "cancelOrder:getOrderBook",
                         "getMarketData:lock", "getUserOrders:lock"}
BookLock == {"add", "cancelOrder:lock", "getBestBid:lock", "getBestAsk:lock",
             "getBidDepth:lock", "getAskDepth:lock", "bookGetUserOrders:lock"}

\* t is blocked at a lock acquisition: another thread holds the mutex
waitsForEngine(t) ==
    /\ threads[t].pc \in EngineLockOfBookCall
    /\ mutex_ \notin {"none", t}
waitsForBook(t) ==
    /\ threads[t].pc \in BookLock
    /\ orderBooks_[threads[t].tradingPair].mutex_ \notin {"none", t}

\* C22: contention between different books is independent.  A call on book
\* B waits for a book mutex only if it is B's own, and while it waits for
\* the engine mutex, a holder whose call is on a different book A is neither
\* waiting for nor holding A's mutex: the engine mutex is never held over
\* the work on a book, so the wait never lasts as long as work on A.
C22_IndependentBooks ==
    \A t \in Threads :
        /\ waitsForBook(t) =>
              \A h \in Threads :
                  orderBooks_[threads[t].tradingPair].mutex_ = h =>
                      threads[h].tradingPair = threads[t].tradingPair
        /\ waitsForEngine(t) =>
              \A h \in Threads :
                  (mutex_ = h /\ threads[h].tradingPair # threads[t].tradingPair) =>
                      threads[h].pc \notin BookLock \cup BookAccess

\* the MarketData d describes one state of a book: its best prices are the
\* best keys of its depth maps (0 for an empty side), its spread is computed
\* from them, and the book it describes is not crossed
oneState(d) ==
    /\ d.bestBid = IF DOMAIN d.bidDepth = {} THEN 0 ELSE MaxOf(DOMAIN d.bidDepth)
    /\ d.bestAsk = IF DOMAIN d.askDepth = {} THEN 0 ELSE MinOf(DOMAIN d.askDepth)
    /\ d.spread = spreadOf(d.bestBid, d.bestAsk)
    /\ (DOMAIN d.bidDepth # {} /\ DOMAIN d.askDepth # {}) => d.bestBid < d.bestAsk

\* C23: market-data returns an atomic snapshot: also under concurrent
\* submits and cancels on the same book, the bestBid, bestAsk, spread,
\* bidDepth and askDepth it returns describe one single state of the book.
C23_AtomicSnapshot ==
    (lastResult.op = "getMarketData" /\ lastResult.ret = "ok") =>
        oneState(lastResult.value)

\* thread t takes this step and it is the lookup of a symbol without a book
unknownLookup(t, pc) ==
    /\ at(t, pc)
    /\ threads'[t] # threads[t]
    /\ threads[t].tradingPair \notin DOMAIN orderBooks_

\* C24: unknown-symbol handling.  For a symbol that has no book, submit and
\* market-data fail with UnknownPair, cancel returns false and user-orders
\* returns the empty list; the call ends there, creates no book and changes
\* no book, no order, no trade and not the id counter.
C24_UnknownSymbol ==
    [][\A t \in Threads :
          /\ unknownLookup(t, "submitOrder:find") =>
                 lastResult' = Result("submitOrder", 0, <<>>, "UnknownPair")
          /\ unknownLookup(t, "cancelOrder:find") =>
                 lastResult' = Result("cancelOrder", 0, <<>>, "false")
          /\ unknownLookup(t, "getMarketData:find") =>
                 lastResult' = Result("getMarketData", 0, <<>>, "UnknownPair")
          /\ unknownLookup(t, "getUserOrders:find") =>
                 lastResult' = Value("getUserOrders", {})
          /\ (\/ unknownLookup(t, "submitOrder:find")
              \/ unknownLookup(t, "cancelOrder:find")
              \/ unknownLookup(t, "getMarketData:find")
              \/ unknownLookup(t, "getUserOrders:find")) =>
                 /\ threads'[t] = Idle
                 /\ mutex_' = "none"
                 /\ UNCHANGED <<orderBooks_, orderIdCounter_, orderPtr, tradeLog>>]_vars

\* market-data of a symbol without a book failed while another book holds
\* an order
C24_Witness ==
    /\ lastResult.op = "getMarketData"
    /\ lastResult.ret = "UnknownPair"
    /\ \E pair \in DOMAIN orderBooks_ : orderBooks_[pair].orders_ # {}

\* ---- C25 ----
\* C25: no non-positive price reaches a book through the engine: every order
\* resting in a ladder has price > 0 and every emitted trade has price > 0.
C25_PositivePrices ==
    /\ \A pair \in DOMAIN orderBooks_ :
           \A id \in ladderIds(orderBooks_[pair].bids_) \cup ladderIds(orderBooks_[pair].asks_) :
               orderPtr[id].price > 0
    /\ \A k \in 1..Len(tradeLog) : tradeLog[k].trade.price > 0

\* ---- OrderBook::addOrder called on a book handed out by getOrderBook ----
\* getOrderBook is public: a client holds the book of one symbol and calls
\* addOrder with an Order it made itself, of whatever pair.  The client's
\* order has an id the engine does not hand out.
DirectId == MaxOrders + 2

DirectOrders ==
    {Order(DirectId, userId, pair, side, type, price, quantity) :
         userId \in {"user1"}, pair \in EnginePairs, side \in Sides,
         type \in {"LIMIT"}, price \in Prices, quantity \in {1}}

\* the state after book->addOrder(order) returned r to the client; when it
\* threw, the client's Order object is dropped
directReturns(r, tradingPair, orderId) ==
    /\ orderPtr' = IF r.ret = "ok" THEN r.h ELSE orderPtr
    /\ orderBooks_' = [orderBooks_ EXCEPT ![tradingPair] = r.book]
    /\ tradeLog' = tradeLog \o
           [k \in 1..Len(r.trades) |-> [trade |-> r.trades[k], taker |-> orderId]]
    /\ lastResult' = Result("addOrder", orderId, r.trades, r.ret)
    /\ UNCHANGED orderIdCounter_

bookAddOrder(tradingPair, order) ==
    /\ tradingPair \in DOMAIN orderBooks_
    /\ order.id \notin DOMAIN orderPtr
    /\ directReturns(addOrder(makeShared(order), orderBooks_[tradingPair], order.id),
                     tradingPair, order.id)

BookAddOrder ==
    /\ \E tradingPair \in EnginePairs, order \in DirectOrders :
           bookAddOrder(tradingPair, order)
    /\ UNCHANGED lockVars
    /\ UNCHANGED contractVars

\* the engine's own flow next to the client: one user, arguments that pass
\* the checks of submitOrder
BookSubmitOrder ==
    /\ \E tradingPair \in EnginePairs, side \in Sides, type \in Types,
          price \in 0..MaxPrice, quantity \in Quantities :
           /\ type = "MARKET" => price = MarketPrice
           /\ type = "LIMIT" => price > 0
           /\ orderIdCounter_ < EngineMaxOrders
           /\ submitOrder("user1", tradingPair, side, type, price, quantity)
           /\ UNCHANGED lockVars
    /\ UNCHANGED contractVars

NextBook == EngineAddTradingPair \/ BookSubmitOrder \/ BookAddOrder

SpecBook == Init /\ [][NextBook]_vars

\* ---- C26 ----
\* C26: addOrder of an order whose pair differs from the book's pair fails
\* with WrongPair and leaves the book (ladders and directory) as it was; and
\* an order accepted by submitOrder is inserted into the book registered
\* under the order's own symbol and into no other, so that submitOrder never
\* ends with WrongPair.
C26_WrongPair ==
    /\ [](\A pair \in DOMAIN orderBooks_ : \A order \in DirectOrders :
             order.tradingPair # pair =>
                 /\ addOrder(makeShared(order), orderBooks_[pair], order.id).ret = "WrongPair"
                 /\ addOrder(makeShared(order), orderBooks_[pair], order.id).book
                        = orderBooks_[pair])
    /\ [][/\ lastResult'.op = "addOrder" /\ lastResult'.ret = "WrongPair" =>
                 UNCHANGED <<orderBooks_, orderPtr, tradeLog, orderIdCounter_>>
          /\ lastResult'.op = "submitOrder" => lastResult'.ret # "WrongPair"
          /\ isSubmitStep =>
                 /\ lastResult'.ret = "ok"
                 /\ \A pair \in DOMAIN orderBooks_' :
                        orderIdCounter_' \in orderBooks_'[pair].orders_
                            <=> pair = orderPtr'[orderIdCounter_'].tradingPair]_vars

\* a client's order of another pair was refused by a book that holds an order
C26_Witness ==
    /\ lastResult.op = "addOrder"
    /\ lastResult.ret = "WrongPair"
    /\ \E pair \in DOMAIN orderBooks_ : orderBooks_[pair].orders_ # {}
    /\ orderIdCounter_ > 0

\* an order was stored under this id
placed(orderId) == dex.orders[orderId] # NoOrder

\* ---- transactions sent to the DEXContract ----
\* tokenA is the base token and tokenB the quote token of every order
Deposit ==
    /\ \E sender \in Traders, token \in Tokens, amount \in 0..MaxAmount,
          transferred \in BOOLEAN :
           deposit(sender, token, amount, transferred)
    /\ UNCHANGED engineVars

Withdraw ==
    /\ \E sender \in Traders, token \in Tokens, amount \in 0..MaxAmount,
          transferred \in BOOLEAN :
           withdraw(sender, token, amount, transferred)
    /\ UNCHANGED engineVars

PlaceOrder ==
    /\ Cardinality({id \in DexOrderIds : placed(id)}) < DexMaxOrders
    /\ \E sender \in {Owner, "user2"}, orderId \in DexOrderIds, user \in Traders,
          side \in Sides, price \in 1..DexMaxPrice, quantity \in 1..DexMaxQty :
           placeOrder(sender, orderId, user, "tokenA", "tokenB", side, "LIMIT",
                      price, quantity)
    /\ UNCHANGED engineVars

ExecuteTrade ==
    /\ \E sender \in {Owner, "user2"}, buyOrderId \in DexOrderIds, sellOrderId \in DexOrderIds,
          price \in 1..DexMaxPrice, quantity \in 1..DexMaxQty :
           DEXContract_executeTrade(sender, buyOrderId, sellOrderId, price, quantity)
    /\ UNCHANGED engineVars

DexCancelOrder ==
    /\ \E sender \in Accounts, orderId \in DexOrderIds :
           DEXContract_cancelOrder(sender, orderId)
    /\ UNCHANGED engineVars

NextContract == Deposit \/ Withdraw \/ PlaceOrder \/ ExecuteTrade \/ DexCancelOrder

SpecContract == Init /\ [][NextContract]_vars

\* ---- C27 ----
\* C27: deposit/withdraw accounting.  A deposit or withdraw of 0 reverts, a
\* withdraw of more than the caller's balance reverts with "Insufficient
\* balance"; a successful deposit of amount > 0 raises balances[sender][token]
\* by exactly amount and a successful withdraw lowers it by exactly amount,
\* nothing else in the storage changes; a reverted call changes nothing; no
\* balance is ever negative.
C27_DepositWithdraw ==
    /\ [](/\ \A user \in Accounts, token \in Tokens : dex.balances[user][token] >= 0
          /\ \A sender \in Traders, token \in Tokens, amount \in 0..MaxAmount,
                transferred \in BOOLEAN :
                 /\ amount = 0 =>
                        /\ depositReverts(sender, token, amount, transferred)
                               = "Amount must be greater than 0"
                        /\ withdrawReverts(sender, token, amount, transferred)
                               = "Amount must be greater than 0"
                 /\ amount > dex.balances[sender][token] =>
                        withdrawReverts(sender, token, amount, transferred)
                            = "Insufficient balance")
    /\ [][tx'.fn \in {"deposit", "withdraw"} =>
             \A sender \in Traders, token \in Tokens, amount \in 0..MaxAmount,
                transferred \in BOOLEAN :
                 /\ deposit(sender, token, amount, transferred) =>
                        IF tx'.status = "ok"
                        THEN /\ amount > 0
                             /\ dex' = [dex EXCEPT !.balances[sender][token] =
                                            dex.balances[sender][token] + amount]
                        ELSE UNCHANGED dex
                 /\ withdraw(sender, token, amount, transferred) =>
                        IF tx'.status = "ok"
                        THEN /\ amount > 0
                             /\ amount <= dex.balances[sender][token]
                             /\ dex' = [dex EXCEPT !.balances[sender][token] =
                                            dex.balances[sender][token] - amount]
                        ELSE UNCHANGED dex]_vars

\* a withdraw went through and left a part of two deposits of the token behind
C27_Witness ==
    /\ tx = Tx("withdraw", "ok")
    /\ \E token \in Tokens :
           /\ dex.balances["user1"][token] = MaxAmount
           /\ \A other \in Tokens \ {token} : dex.balances["user1"][other] = 0

\* ---- C28 ----
\* C28: placeOrder locks funds.  The call reverts, changing nothing, when the
\* caller is not the owner, when an order was already placed under the id,
\* or when the user's balance is below what is to be locked; otherwise a BUY
\* order lowers the user's quote-token balance by exactly
\* price * quantity / 1e18 and a SELL order lowers the user's base-token
\* balance by exactly quantity.
C28_PlaceOrderLocks ==
    /\ [](\A sender \in Accounts, orderId \in DexOrderIds, user \in Traders,
             side \in Sides, price \in 1..DexMaxPrice, quantity \in 1..DexMaxQty :
              (\/ sender # Owner
               \/ placed(orderId)
               \/ dex.balances[user][lockedToken("tokenA", "tokenB", side)]
                      < lockedAmount(side, price, quantity))
                  => placeOrderReverts(sender, orderId, user, "tokenA", "tokenB",
                                       side, price, quantity) # "ok")
    /\ [][tx'.fn = "placeOrder" =>
             \A sender \in Accounts, orderId \in DexOrderIds, user \in Traders,
                side \in Sides, price \in 1..DexMaxPrice, quantity \in 1..DexMaxQty :
                 placeOrder(sender, orderId, user, "tokenA", "tokenB", side, "LIMIT",
                            price, quantity) =>
                     IF tx'.status = "ok"
                     THEN /\ dex'.balances =
                                 [dex.balances EXCEPT
                                     ![user][lockedToken("tokenA", "tokenB", side)] =
                                         @ - lockedAmount(side, price, quantity)]
                          /\ \A other \in DexOrderIds \ {orderId} :
                                 dex'.orders[other] = dex.orders[other]
                     ELSE UNCHANGED dex]_vars

\* ---- C29 ----
\* C29: cancelOrder of a placed order goes through only for the order's user
\* or the owner and only while the status is PENDING or PARTIAL; any other
\* caller reverts with "Not authorized"; a reverted call changes nothing; a
\* successful call sets the status to CANCELLED and adds to the user's
\* balance what was locked for the unfilled remainder, and nothing else; a
\* cancel of a CANCELLED order reverts.
C29_CancelOrder ==
    /\ [](\A sender \in Accounts, orderId \in DexOrderIds :
              placed(orderId) =>
                  /\ cancelOrderReverts(sender, orderId) = "ok" =>
                         /\ sender \in {dex.orders[orderId].user, Owner}
                         /\ dex.orders[orderId].status \in {"PENDING", "PARTIAL"}
                  /\ sender \notin {dex.orders[orderId].user, Owner} =>
                         cancelOrderReverts(sender, orderId) = "Not authorized"
                  /\ dex.orders[orderId].status = "CANCELLED" =>
                         cancelOrderReverts(sender, orderId) # "ok")
    /\ [][tx'.fn = "cancelOrder" =>
             \A sender \in Accounts, orderId \in DexOrderIds :
                 DEXContract_cancelOrder(sender, orderId) =>
                     IF tx'.status = "ok"
                     THEN dex' = [dex EXCEPT
                              !.balances[dex.orders[orderId].user]
                                        [lockedToken(dex.orders[orderId].baseToken,
                                                     dex.orders[orderId].quoteToken,
                                                     dex.orders[orderId].side)] =
                                  @ + lockedAmount(dex.orders[orderId].side,
                                                   dex.orders[orderId].price,
                                                   dex.orders[orderId].quantity
                                                     - dex.orders[orderId].filledQuantity),
                              !.orders[orderId].status = "CANCELLED"]
                     ELSE UNCHANGED dex]_vars

\* ---- C30 ----
\* every level of ladder m, the ladder of side, is non-empty and holds orders
\* of its own price and of that side with something left to fill
wellFormed(m, side) ==
    \A p \in DOMAIN m :
        /\ m[p] # <<>>
        /\ \A k \in 1..Len(m[p]) :
               /\ orderPtr[m[p][k]].price = p
               /\ orderPtr[m[p][k]].side = side
               /\ getRemainingQuantity(orderPtr[m[p][k]]) > 0

\* C30: ladder structure.  Between two calls no price level is empty, every
\* order in the level keyed by price P on side S has price P and side S,
\* every order in a ladder has remaining quantity > 0, and no order is at
\* more than one place of the two ladders.
C30_LadderStructure ==
    \A pair \in DOMAIN orderBooks_ :
        /\ wellFormed(orderBooks_[pair].bids_, "BUY")
        /\ wellFormed(orderBooks_[pair].asks_, "SELL")
        /\ \A id \in DOMAIN orderPtr :
               occurrences(orderBooks_[pair].bids_, id)
                   + occurrences(orderBooks_[pair].asks_, id) <= 1

\* an ask level with two orders, the first of them partly filled by a trade
C30_Witness ==
    \E pair \in DOMAIN orderBooks_ :
        /\ \E p \in DOMAIN orderBooks_[pair].asks_ :
               /\ Len(orderBooks_[pair].asks_[p]) = 2
               /\ orderPtr[orderBooks_[pair].asks_[p][1]].filledQuantity > 0
        /\ tradeLog # <<>>

\* ---- C31 ----
\* C31: a LIMIT order that is not completely filled on arrival rests
\* afterwards at the tail of the level of its own price on its own side, at
\* no other place, with remaining quantity = quantity - the sum of the
\* quantities of the trades its submission returned; a LIMIT order that is
\* completely filled on arrival is in no ladder.
C31_RemainderRests ==
    [][(isSubmitStep /\ orderPtr'[orderIdCounter_'].type = "LIMIT") =>
          LET id == orderIdCounter_'
              o == orderPtr'[id]
              own == ownLadder(orderBooks_'[o.tradingPair], o)
              other == otherLadder(orderBooks_'[o.tradingPair], o)
              traded == tradedQty(lastResult'.trades, Len(lastResult'.trades), id)
          IN IF traded < o.quantity
             THEN /\ o.price \in DOMAIN own
                  /\ own[o.price][Len(own[o.price])] = id
                  /\ occurrences(own, id) = 1
                  /\ occurrences(other, id) = 0
                  /\ getRemainingQuantity(o) = o.quantity - traded
             ELSE /\ traded = o.quantity
                  /\ occurrences(own, id) = 0
                  /\ occurrences(other, id) = 0]_vars

\* a LIMIT order traded on arrival and its remainder rests, next to an order
\* that rested before it on the same side
C31_Witness ==
    /\ lastResult.op = "submitOrder"
    /\ lastResult.trades # <<>>
    /\ orderPtr[lastResult.orderId].type = "LIMIT"
    /\ isResting(orderBooks_[orderPtr[lastResult.orderId].tradingPair], lastResult.orderId)
    /\ \E id \in DOMAIN orderPtr :
           /\ id < lastResult.orderId
           /\ orderPtr[id].side = orderPtr[lastResult.orderId].side
           /\ isResting(orderBooks_[orderPtr[id].tradingPair], id)

positionIn(level, id) == CHOOSE i \in 1..Len(level) : level[i] = id

\* C33: the trades returned by one submission are in execution order: their
\* prices never fall for a buy taker and never rise for a sell taker, and of
\* two trades at one price the earlier one is with the resting order that
\* was inserted into the level first.
C33_ExecutionOrder ==
    [][isSubmitStep =>
          LET taker == orderIdCounter_'
              o == orderPtr'[taker]
              trades == lastResult'.trades
              opposite == otherLadder(orderBooks_[o.tradingPair], o)
          IN \A k, l \in 1..Len(trades) :
                 k < l =>
                     /\ IF o.side = "BUY" THEN trades[k].price <= trades[l].price
                        ELSE trades[k].price >= trades[l].price
                     /\ trades[k].price = trades[l].price =>
                            /\ trades[k].price \in DOMAIN opposite
                            /\ makerOf(trades[k], taker) \in Range(opposite[trades[k].price])
                            /\ makerOf(trades[l], taker) \in Range(opposite[trades[k].price])
                            /\ positionIn(opposite[trades[k].price], makerOf(trades[k], taker))
                                 < positionIn(opposite[trades[k].price],
                                              makerOf(trades[l], taker))]_vars

\* a sell taker swept two bid levels, the higher one first
C33_Witness ==
    /\ lastResult.op = "submitOrder"
    /\ Len(lastResult.trades) = 2
    /\ lastResult.trades[1].sellOrderId = lastResult.orderId
    /\ lastResult.trades[1].price > lastResult.trades[2].price

\* ---- C34 ----
\* price p of the opposite side is acceptable for taker o
acceptableFor(o, p) ==
    \/ o.type = "MARKET"
    \/ IF o.side = "BUY" THEN p <= o.price ELSE p >= o.price

\* remaining quantity resting in ladder m at the prices 0..p acceptable for o
RECURSIVE liquidity(_, _, _)
liquidity(m, o, p) ==
    IF p < 0 THEN 0
    ELSE liquidity(m, o, p - 1) +
         (IF p \in DOMAIN m /\ acceptableFor(o, p) THEN totalQuantity(orderPtr, m[p]) ELSE 0)

aheadOf(level, id) == {level[i] : i \in 1..(positionIn(level, id) - 1)}

\* C35: a partial fill does not cost a resting order its time priority.  A
\* resting order that receives a fill and is not filled by it is afterwards
\* the head of its price level, with its remaining quantity reduced by the
\* fill; and an order that stays in its level never gets an order in front
\* of it that was not in front of it before.
C35_PartialFillKeepsPriority ==
    [][\A pair \in DOMAIN orderBooks_ : \A side \in Sides :
          LET before == IF side = "BUY" THEN orderBooks_[pair].bids_
                        ELSE orderBooks_[pair].asks_
              after == IF side = "BUY" THEN orderBooks_'[pair].bids_
                       ELSE orderBooks_'[pair].asks_
          IN \A p \in DOMAIN before : \A id \in Range(before[p]) :
                 /\ (/\ orderPtr'[id].filledQuantity > orderPtr[id].filledQuantity
                     /\ ~isFilled(orderPtr'[id])) =>
                        /\ p \in DOMAIN after
                        /\ after[p] # <<>>
                        /\ after[p][1] = id
                        /\ getRemainingQuantity(orderPtr'[id])
                             = getRemainingQuantity(orderPtr[id])
                                 - tradedQty(lastResult'.trades, Len(lastResult'.trades), id)
                 /\ (p \in DOMAIN after /\ id \in Range(after[p])) =>
                        aheadOf(after[p], id) \subseteq aheadOf(before[p], id)]_vars

\* a resting order was partly filled and an order submitted after that trade
\* is queued behind it
C35_Witness ==
    \E pair \in DOMAIN orderBooks_ :
        \E m \in {orderBooks_[pair].bids_, orderBooks_[pair].asks_} : \E p \in DOMAIN m :
            /\ Len(m[p]) = 2
            /\ orderPtr[m[p][1]].status = "PARTIAL"
            /\ \E k \in 1..Len(tradeLog) :
                   /\ makerOf(tradeLog[k].trade, tradeLog[k].taker) = m[p][1]
                   /\ tradeLog[k].taker < m[p][2]

\* ---- C36 ----
\* the step leaves every book but the one of pair as it is, together with
\* the orders of every other pair
othersUntouched(pair) ==
    /\ DOMAIN orderBooks_' = DOMAIN orderBooks_
    /\ \A other \in (DOMAIN orderBooks_) \ {pair} : orderBooks_'[other] = orderBooks_[other]
    /\ \A id \in DOMAIN orderPtr :
           orderPtr[id].tradingPair # pair => orderPtr'[id] = orderPtr[id]

\* C36: books are isolated from each other.  A submit or a cancel addressed
\* to one symbol changes no ladder, no directory, no status and no filled
\* quantity of another book; a cancel addressed to one symbol for an id that
\* rests in the book of another symbol returns false and changes no book and
\* no order.
C36_BooksIsolated ==
    [][/\ isSubmitStep => othersUntouched(orderPtr'[orderIdCounter_'].tradingPair)
       /\ lastResult'.op = "cancelOrder" =>
              \A orderId \in OrderIds, tradingPair \in EnginePairs :
                  cancelOrder(orderId, tradingPair) =>
                      /\ othersUntouched(tradingPair)
                      /\ (\E other \in (DOMAIN orderBooks_) \ {tradingPair} :
                              /\ orderId \in DOMAIN orderPtr
                              /\ isResting(orderBooks_[other], orderId)) =>
                             /\ lastResult'.ret = "false"
                             /\ UNCHANGED <<orderBooks_, orderPtr>>]_vars

\* both books hold a resting order and the last call was a cancel that
\* returned false
C36_Witness ==
    /\ lastResult.op = "cancelOrder"
    /\ lastResult.ret = "false"
    /\ \A pair \in EnginePairs :
           /\ pair \in DOMAIN orderBooks_
           /\ \E id \in DOMAIN orderPtr : isResting(orderBooks_[pair], id)

\* ---- C37 ----
\* a price level without id, the other orders in their order
without(level, id) == SelectSeq(level, LAMBDA x : x # id)

\* ladder after is ladder before with id taken out and nothing else changed
onlyRemoved(before, after, id) ==
    /\ DOMAIN after \subseteq DOMAIN before
    /\ \A p \in DOMAIN before :
           IF without(before[p], id) = <<>> THEN p \notin DOMAIN after
           ELSE p \in DOMAIN after /\ after[p] = without(before[p], id)

\* C37: cancel changes only the cancelled order.  After a cancel that
\* returned true every other order has the status and the filled quantity it
\* had, every other resting order is in its price level at its place among
\* the others, and the opposite ladder is as it was; a cancel that returned
\* false changes no book and no order.
C37_CancelTouchesOneOrder ==
    [][lastResult'.op = "cancelOrder" =>
          IF lastResult'.ret = "true"
          THEN /\ lastResult'.orderId \in DOMAIN orderPtr
               /\ \A id \in (DOMAIN orderPtr) \ {lastResult'.orderId} :
                      orderPtr'[id] = orderPtr[id]
               /\ \A pair \in DOMAIN orderBooks_ :
                      /\ onlyRemoved(ownLadder(orderBooks_[pair], orderPtr[lastResult'.orderId]),
                                     ownLadder(orderBooks_'[pair], orderPtr[lastResult'.orderId]),
                                     lastResult'.orderId)
                      /\ otherLadder(orderBooks_'[pair], orderPtr[lastResult'.orderId])
                             = otherLadder(orderBooks_[pair], orderPtr[lastResult'.orderId])
               /\ UNCHANGED <<orderIdCounter_, tradeLog>>
          ELSE UNCHANGED <<orderBooks_, orderIdCounter_, orderPtr, tradeLog>>]_vars

\* the second order of a level was cancelled: the first one is still there,
\* and so is an order of the other side
C37_Witness ==
    /\ lastResult.op = "cancelOrder"
    /\ lastResult.ret = "true"
    /\ \E pair \in DOMAIN orderBooks_ :
           /\ \E id \in ladderIds(ownLadder(orderBooks_[pair], orderPtr[lastResult.orderId])) :
                  /\ orderPtr[id].price = orderPtr[lastResult.orderId].price
                  /\ id < lastResult.orderId
           /\ DOMAIN otherLadder(orderBooks_[pair], orderPtr[lastResult.orderId]) # {}

\* ---- C38 ----
\* C38: within one book orders are processed in id order, also when submits
\* run concurrently: in every price level the resting orders appear in
\* strictly increasing id order.
C38_IdOrderInLevels ==
    \A pair \in DOMAIN orderBooks_ :
        \A m \in {orderBooks_[pair].bids_, orderBooks_[pair].asks_} : \A p \in DOMAIN m :
            \A i, j \in 1..Len(m[p]) : i < j => m[p][i] < m[p][j]


\* ---- C39 ----
\* a thread enters a public call
callStarts == \E t \in Threads : threads[t].pc = "idle" /\ threads'[t].pc # "idle"

\* the set of calls is finite: from some point on no call is started
FiniteCalls == <>[][~callStarts]_vars

\* every call that was entered returns
EveryCallReturns ==
    \A t \in Threads : (threads[t].pc # "idle") ~> (threads[t].pc = "idle")

holdsBookMutex(t) == \E pair \in DOMAIN orderBooks_ : orderBooks_[pair].mutex_ = t

\* the engine mutex is never requested by a thread that holds a book mutex
EngineThenBook ==
    \A t \in Threads : holdsBookMutex(t) => threads[t].pc \notin engineLockPcs

\* the step of thread t that runs addOrder: every trade of the matching loop
\* left its resting order completely filled and out of the book, except that
\* the last one may instead have completely filled the taker, so that the
\* loop ran at most once per order that rested on the opposite side
loopProgress(t) ==
    LET taker == threads[t].orderId
        trades == lastResult'.trades
        before == orderBooks_[threads[t].tradingPair]
        after == orderBooks_'[threads[t].tradingPair]
    IN /\ \A k \in 1..Len(trades) :
              \/ /\ isFilled(orderPtr'[makerOf(trades[k], taker)])
                 /\ makerOf(trades[k], taker)
                        \notin ladderIds(after.bids_) \cup ladderIds(after.asks_)
              \/ k = Len(trades) /\ isFilled(orderPtr'[taker])
       /\ Len(trades) <= Cardinality(ladderIds(otherLadder(before, orderPtr'[taker])))
       /\ \A k, l \in 1..Len(trades) :
              k # l => makerOf(trades[k], taker) # makerOf(trades[l], taker)

NeverOverfilled ==
    \A id \in DexOrderIds : dex.orders[id].filledQuantity <= dex.orders[id].quantity

\* a successful executeTrade changes only orders that were neither FILLED
\* nor CANCELLED
FillsOpenOrdersOnly ==
    (tx'.fn = "executeTrade" /\ tx'.status = "ok") =>
        \A id \in DexOrderIds :
            dex'.orders[id] # dex.orders[id] =>
                dex.orders[id].status \notin {"FILLED", "CANCELLED"}

\* C40: settlement never creates funds.  After any sequence of deposit,
\* withdraw, placeOrder, executeTrade and cancelOrder transactions every
\* order has filledQuantity <= quantity, and executeTrade never fills an
\* order whose status is FILLED or CANCELLED.  (The part of the claim on the
\* sum of the balances against the totals deposited and withdrawn is about
\* totals the contract does not store; the two parts above are the ones the
\* storage decides.)
C40_SettlementNeverCreatesFunds ==
    /\ []NeverOverfilled
    /\ [][FillsOpenOrdersOnly]_vars
====
